---- MODULE Spec2Model ----
(***************************************************************************)
(* Model of the Shopify analytics service (python_service): the pipeline   *)
(* AnalyticsAgent.process_question behind the /analyze endpoint, with its  *)
(* plan builder, execution step, result normalisation and result           *)
(* explainer.                                                              *)
(*                                                                         *)
(* Representation.  A text is represented by what the code reads of it:    *)
(* a prompt by the set of keywords it contains as substrings, a message by *)
(* a record.  A Python dict whose keys vary is a record with a fixed set   *)
(* of fields plus the flags that say which keys are present.               *)
(***************************************************************************)
EXTENDS Integers, Sequences, FiniteSets, TLC

(***************************************************************************)
(* Bounds of the model.                                                    *)
(***************************************************************************)
\* longest data_sources list of an intent
MaxSources == 3
\* most rows of a table response
MaxRows == 31
\* most edges of one keyed collection of a fallback response
MaxEdges == 1
\* most entries of an upstream errors payload
MaxErrors == 2
\* the longest query text given to the validator, in tokens
MaxQueryLen == 4
\* the template parameters range over -MaxParam..MaxParam and the defaults
MaxParam == 2

(***************************************************************************)
(* app/models/schemas.py                                                   *)
(***************************************************************************)
DataSource == {"orders", "products", "inventory", "customers", "sales"}

\* Python's None where a string is expected
NoneStr == "<None>"

\* all sequences over S of length at most n
SeqsUpTo(S, n) == UNION {[1..k -> S] : k \in 0..n}

\* x in seq
Contains(seq, x) == \E i \in 1..Len(seq) : seq[i] = x

QuestionIntent(primary_intent, data_sources) ==
    [primary_intent |-> primary_intent, data_sources |-> data_sources]

(***************************************************************************)
(* AnalyticsAgent._create_plan                                             *)
(***************************************************************************)
PlanStep(step, description, priority) ==
    [step |-> step, description |-> description, priority |-> priority]

\* the plan as appended, before sorting (analytics_agent.py 131-167)
PlanAppended(intent) ==
    LET ds == intent.data_sources IN
    (IF Contains(ds, "inventory")
        THEN <<PlanStep("fetch_inventory", "Get current inventory levels", 1)>>
        ELSE <<>>)
    \o (IF Contains(ds, "orders") \/ Contains(ds, "sales")
        THEN <<PlanStep("fetch_sales_data",
                        "Get sales/order data for the specified period", 1)>>
        ELSE <<>>)
    \o (IF Contains(ds, "customers")
        THEN <<PlanStep("fetch_customer_data", "Get customer information", 2)>>
        ELSE <<>>)
    \o (IF Contains(ds, "products")
        THEN <<PlanStep("fetch_product_data", "Get product information", 2)>>
        ELSE <<>>)
    \o <<PlanStep("analyze_data", "Calculate metrics and generate insights", 3)>>

\* mutant: an element is placed before the elements of equal priority
InsertByPriorityUnstable(x, sorted) ==
    LET before == SelectSeq(sorted, LAMBDA y : y.priority < x.priority)
        after  == SelectSeq(sorted, LAMBDA y : y.priority >= x.priority)
    IN before \o <<x>> \o after

\* one insertion of Python's stable sorted(): x goes after every element whose
\* key is not greater (sorted is already in key order)
InsertByPriority(x, sorted) ==
    LET before == SelectSeq(sorted, LAMBDA y : y.priority <= x.priority)
        after  == SelectSeq(sorted, LAMBDA y : y.priority > x.priority)
    IN before \o <<x>> \o after

RECURSIVE SortedByPriority(_)
\* sorted(plan, key=lambda x: x["priority"]): stable, ascending
SortedByPriority(plan) ==
    IF plan = <<>> THEN <<>>
    ELSE InsertByPriority(plan[Len(plan)], SortedByPriority(SubSeq(plan, 1, Len(plan) - 1)))

\* mutant: the analysis step is appended first and given priority 1
CreatePlanAnalyzeFirst(intent) ==
    LET p == PlanAppended(intent) IN
    SortedByPriority(<<PlanStep("analyze_data", "Calculate metrics and generate insights", 1)>>
                     \o SubSeq(p, 1, Len(p) - 1))

CreatePlan(intent) == SortedByPriority(PlanAppended(intent))

(***************************************************************************)
(* Upstream (data source) responses and ShopifyClient                      *)
(***************************************************************************)
\* a message text with one formatted number, as in f"HTTP {status}"
Message(text, n) == [text |-> text, n |-> n]

\* one entry of an upstream errors list: a JSON object (with or without a
\* "message" member) or a JSON scalar; repr is str(e)
ErrEntry(isObj, hasMessage, message, repr) ==
    [isObj |-> isObj, hasMessage |-> hasMessage, message |-> message, repr |-> repr]

ObjWithMessage == ErrEntry(TRUE, TRUE, Message("Syntax error near SHOW", 0),
                           Message("{'code': 'E1', 'message': 'Syntax error near SHOW'}", 0))
ObjNoMessage   == ErrEntry(TRUE, FALSE, Message("", 0), Message("{'code': 'E2'}", 0))
ScalarEntry    == ErrEntry(FALSE, FALSE, Message("", 0), Message("Access denied", 0))

ErrEntries == {ObjWithMessage, ObjNoMessage, ScalarEntry}

\* a table cell: a number, None, or a text float() cannot parse
Cell(kind, n) == [kind |-> kind, n |-> n]

NoTable == [columns |-> <<>>, rowData |-> <<>>]

\* the entity keys the fallback response may carry
KeyedKeys == {"orders", "products", "customers", "inventoryItems"}

\* one member of a fallback response: present or not, with its edge list
Collection(present, edges) == [present |-> present, edges |-> edges]
NoKeyed == [k \in KeyedKeys |-> Collection(FALSE, <<>>)]

\* A dict returned by the client.  isNone: the value is None, not a dict.
\* keyed: for each entity key, whether the dict has it and its edge list.
\* other: the dict has further keys (__typename, parseErrors, ...).
RawDict(isNone, hasErrors, errors, hasTable, tableData, keyed, other) ==
    [isNone |-> isNone, hasErrors |-> hasErrors, errors |-> errors,
     hasTable |-> hasTable, tableData |-> tableData, keyed |-> keyed, other |-> other]

RawNone  == RawDict(TRUE, FALSE, <<>>, FALSE, NoTable, NoKeyed, FALSE)
RawEmpty == RawDict(FALSE, FALSE, <<>>, FALSE, NoTable, NoKeyed, FALSE)
RawErrors(errors) == RawDict(FALSE, TRUE, errors, FALSE, NoTable, NoKeyed, FALSE)

\* Python truthiness of a dict-or-None
Truthy(d) ==
    /\ ~d.isNone
    /\ d.hasErrors \/ d.hasTable \/ d.other \/ \E k \in KeyedKeys : d.keyed[k].present

\* An HTTP response of the store.  dataKind, sqKind: whether body["data"] and
\* body["data"]["shopifyqlQuery"] are "absent", "null" or "obj".
\* topErrors: the body's own top-level "errors" member is present.
HttpResponse(status, dataKind, topErrors, sqKind, parseErrors, hasTable, tableData, keyed) ==
    [status |-> status, dataKind |-> dataKind, topErrors |-> topErrors, sqKind |-> sqKind,
     parseErrors |-> parseErrors, hasTable |-> hasTable, tableData |-> tableData,
     keyed |-> keyed]

Returned(v) == [raised |-> FALSE, exc |-> "", value |-> v]
Raised(exc, v) == [raised |-> TRUE, exc |-> exc, value |-> v]

HttpErrors(status) ==
    RawErrors(<<ErrEntry(TRUE, TRUE, Message("HTTP", status), Message("{'message': 'HTTP'}", status))>>)

\* execute_shopifyql raising on an HTTP error status (raise_for_status)
ExecuteShopifyQLRaiseForStatus(r) ==
    IF r.status # 200 THEN Raised("HTTPStatusError", RawNone)
    ELSE IF r.dataKind = "null" THEN Raised("AttributeError", RawNone)
    ELSE IF r.dataKind = "absent" THEN Returned(RawEmpty)
    ELSE IF r.sqKind = "null" THEN Raised("AttributeError", RawNone)
    ELSE IF r.sqKind = "absent" THEN Returned(RawEmpty)
    ELSE IF r.parseErrors # <<>> THEN Returned(RawErrors(r.parseErrors))
    ELSE Returned(RawDict(FALSE, FALSE, <<>>, r.hasTable, r.tableData, NoKeyed, TRUE))

\* ShopifyClient.execute_shopifyql (lines 82-94) on the response of the post
ExecuteShopifyQL(r) ==
    IF r.status # 200 THEN Returned(HttpErrors(r.status))
    ELSE IF r.dataKind = "null" THEN Raised("AttributeError", RawNone)
    ELSE IF r.dataKind = "absent" THEN Returned(RawEmpty)
    ELSE IF r.sqKind = "null" THEN Raised("AttributeError", RawNone)
    ELSE IF r.sqKind = "absent" THEN Returned(RawEmpty)
    ELSE IF r.parseErrors # <<>> THEN Returned(RawErrors(r.parseErrors))
    ELSE Returned(RawDict(FALSE, FALSE, <<>>, r.hasTable, r.tableData, NoKeyed, TRUE))

\* ShopifyClient.execute_graphql (lines 113-116) on the response of the post
ExecuteGraphQL(r) ==
    IF r.status # 200 THEN Returned(HttpErrors(r.status))
    ELSE IF r.dataKind = "null" THEN Returned(RawNone)
    ELSE IF r.dataKind = "absent" THEN Returned(RawEmpty)
    ELSE Returned(RawDict(FALSE, FALSE, <<>>, FALSE, NoTable, r.keyed, FALSE))

(***************************************************************************)
(* AnalyticsAgent._validate_and_process_data                               *)
(***************************************************************************)
\* the dict returned: keys are the keys it has
Normalized(keys, is_empty, is_error, errors, data) ==
    [keys |-> keys, is_empty |-> is_empty, is_error |-> is_error,
     errors |-> errors, data |-> data]

\* mutant: the error dict also carries is_empty = True
ValidateAndProcessDataBothFlags(data) ==
    IF ~Truthy(data)
    THEN Normalized({"is_empty", "message"}, TRUE, FALSE, <<>>, RawNone)
    ELSE IF data.hasErrors
    THEN Normalized({"is_empty", "is_error", "errors"}, TRUE, TRUE, data.errors, RawNone)
    ELSE Normalized({"is_empty", "data"}, FALSE, FALSE, <<>>, data)

\* AnalyticsAgent._validate_and_process_data
ValidateAndProcessData(data) ==
    IF ~Truthy(data)
    THEN Normalized({"is_empty", "message"}, TRUE, FALSE, <<>>, RawNone)
    ELSE IF data.hasErrors
    THEN Normalized({"is_error", "errors"}, FALSE, TRUE, data.errors, RawNone)
    ELSE Normalized({"is_empty", "data"}, FALSE, FALSE, <<>>, data)

\* data.get(flag) of the explainer: the flag is present and true
GetFlag(data, flag) ==
    /\ flag \in data.keys
    /\ IF flag = "is_empty" THEN data.is_empty ELSE data.is_error

(***************************************************************************)
(* ResultExplainer                                                         *)
(***************************************************************************)
\* the result dict of explain: keys are the optional keys it has
\* ("raw_data", "suggestions", "errors"); answer is a fixed template with the
\* question formatted into it, or (template "") the text of a completion
Answer(template, question, completion) ==
    [template |-> template, question |-> question, completion |-> completion]

ExplainResult(answer, confidence, query_used, data_source, keys, raw_data, suggestions, errors) ==
    [answer |-> answer, confidence |-> confidence, query_used |-> query_used,
     data_source |-> data_source, keys |-> keys, raw_data |-> raw_data,
     suggestions |-> suggestions, errors |-> errors]

\* query text, or None
NoQuery == [some |-> FALSE, text |-> <<>>]
SomeQuery(text) == [some |-> TRUE, text |-> text]

NoSummary == [k \in {} |-> 0]

\* intent.data_sources[0].value if intent.data_sources else None
FirstSource(intent) ==
    IF intent.data_sources # <<>> THEN intent.data_sources[1] ELSE NoneStr

EmptySuggestions ==
    <<"Try a broader time range",
      "Check if your store has data for this metric",
      "Verify the product or category name">>

\* mutant: the empty answer is returned without its suggestions
HandleEmptyDataNoSuggestions(question, intent) ==
    ExplainResult(Answer("I couldn't find any data to answer your question", question, <<>>),
                  "low", NoQuery, FirstSource(intent), {"suggestions"}, NoSummary,
                  <<>>, <<>>)

\* ResultExplainer._handle_empty_data
HandleEmptyData(question, intent) ==
    ExplainResult(Answer("I couldn't find any data to answer your question", question, <<>>),
                  "low", NoQuery, FirstSource(intent), {"suggestions"}, NoSummary,
                  EmptySuggestions, <<>>)

\* e.get("message", str(e)) of a dict entry
EntryMessage(e) == IF e.hasMessage THEN e.message ELSE e.repr

\* ResultExplainer._handle_error_data: e.get raises on an entry that is no dict
HandleErrorData(question, data) ==
    LET errors == IF "errors" \in data.keys THEN data.errors ELSE <<>>
        result(msgs) ==
            ExplainResult(Answer("I encountered an issue while trying to answer your question", "", <<>>),
                          "low", NoQuery, NoneStr, {"errors"}, NoSummary, <<>>, msgs)
    IN IF \E i \in 1..Len(errors) : ~errors[i].isObj
       THEN Raised("AttributeError", result(<<>>))
       ELSE Returned(result([i \in 1..Len(errors) |-> EntryMessage(errors[i])]))

\* the metric keywords a column name (lower-cased) contains
MetricKeywords == {"revenue", "sales", "total", "quantity", "units", "sold"}

ColumnKeywords(col) ==
    CASE col = "units_sold" -> {"units", "sold"}
      [] col = "revenue" -> {"revenue"}
      [] col = "inventory_quantity" -> {"quantity"}
      [] OTHER -> {}

RECURSIVE SumCells(_)
SumCells(values) ==
    IF values = <<>> THEN 0 ELSE values[1].n + SumCells(Tail(values))

MaxCell(values) == CHOOSE m \in {values[i].n : i \in 1..Len(values)} :
                      \A i \in 1..Len(values) : values[i].n <= m
MinCell(values) == CHOOSE m \in {values[i].n : i \in 1..Len(values)} :
                      \A i \in 1..Len(values) : values[i].n >= m

\* a summary key f"{col}_{stat}"; the plain keys have col = ""
Key(col, stat) == <<col, stat>>

\* the four aggregates of column i (lines 171-179), or nothing: float() of a
\* text cell raises ValueError, which abandons the column
ColumnAggregates(columns, rows, i) ==
    LET col == columns[i]
        cells == [r \in 1..Len(rows) |-> rows[r][i]]
        values == SelectSeq(cells, LAMBDA c : c.kind # "none")
    IN IF ColumnKeywords(col) \cap MetricKeywords = {} THEN NoSummary
       ELSE IF \E k \in 1..Len(values) : values[k].kind = "text" THEN NoSummary
       ELSE IF values = <<>> THEN NoSummary
       ELSE (Key(col, "total") :> SumCells(values))
            @@ (Key(col, "average") :> [num |-> SumCells(values), den |-> Len(values)])
            @@ (Key(col, "max") :> MaxCell(values))
            @@ (Key(col, "min") :> MinCell(values))

RECURSIVE SummaryUpTo(_, _, _)
\* the summary after the loop has handled columns 1..i (later keys overwrite)
SummaryUpTo(columns, rows, i) ==
    IF i = 0
    THEN (Key("", "total_rows") :> Len(rows)) @@ (Key("", "columns") :> columns)
    ELSE ColumnAggregates(columns, rows, i) @@ SummaryUpTo(columns, rows, i - 1)

\* ResultExplainer._generate_summary
GenerateSummary(columns, rows) == SummaryUpTo(columns, rows, Len(columns))

\* the processed dict: hasTable with table, keyed[k] with the node lists
Processed(hasTable, table, keyed, summary) ==
    [hasTable |-> hasTable, table |-> table, keyed |-> keyed, summary |-> summary]

NoProcessedTable == [columns |-> <<>>, rows |-> <<>>, row_count |-> 0]

RECURSIVE KeyedSummary(_, _)
\* summary[key + "_count"] for the keys of ks present in raw
KeyedSummary(raw, ks) ==
    IF ks = {} THEN NoSummary
    ELSE LET k == CHOOSE x \in ks : TRUE IN
         (IF raw.keyed[k].present
             THEN Key(k, "count") :> Len(raw.keyed[k].edges)
             ELSE NoSummary)
         @@ KeyedSummary(raw, ks \ {k})

\* ResultExplainer._process_data
ProcessData(data) ==
    LET raw == IF "data" \in data.keys THEN data.data ELSE RawEmpty IN
    IF raw.hasTable
    THEN LET columns == raw.tableData.columns
             rows == raw.tableData.rowData
         IN Processed(TRUE,
                      [columns |-> columns, rows |-> rows, row_count |-> Len(rows)],
                      NoKeyed,
                      IF rows # <<>> THEN GenerateSummary(columns, rows) ELSE NoSummary)
    ELSE Processed(FALSE, NoProcessedTable,
                   [k \in KeyedKeys |->
                       IF raw.keyed[k].present
                       THEN Collection(TRUE, [i \in 1..Len(raw.keyed[k].edges) |->
                                                 raw.keyed[k].edges[i].node])
                       ELSE Collection(FALSE, <<>>)],
                   KeyedSummary(raw, KeyedKeys))

\* processed_data.get("table", {}).get("row_count", 0)
RowCount(processed) == IF processed.hasTable THEN processed.table.row_count ELSE 0

\* the keys _calculate_confidence looks at (line 262)
ConfidenceKeys == {"orders", "products", "customers"}

ForecastIntents == {"inventory_forecast", "sales_forecast"}

\* the score without the penalty of forecast intents
ConfidenceScoreNoPenalty(processed, intent) ==
    (IF RowCount(processed) > 0 THEN 3
     ELSE IF \E k \in ConfidenceKeys :
                processed.keyed[k].present /\ processed.keyed[k].edges # <<>>
          THEN 2 ELSE 0)
    + (IF RowCount(processed) >= 30 THEN 2
       ELSE IF RowCount(processed) >= 7 THEN 1 ELSE 0)
    + (IF Cardinality(DOMAIN processed.summary) >= 3 THEN 1 ELSE 0)

\* the score of _calculate_confidence (lines 257-279)
ConfidenceScore(processed, intent) ==
    (IF RowCount(processed) > 0 THEN 3
     ELSE IF \E k \in ConfidenceKeys :
                processed.keyed[k].present /\ processed.keyed[k].edges # <<>>
          THEN 2 ELSE 0)
    + (IF RowCount(processed) >= 30 THEN 2
       ELSE IF RowCount(processed) >= 7 THEN 1 ELSE 0)
    + (IF Cardinality(DOMAIN processed.summary) >= 3 THEN 1 ELSE 0)
    - (IF intent.primary_intent \in ForecastIntents THEN 1 ELSE 0)

\* the label of a score (lines 282-287)
ConfidenceLabel(score) ==
    IF score >= 5 THEN "high" ELSE IF score >= 3 THEN "medium" ELSE "low"

\* ResultExplainer._calculate_confidence
CalculateConfidence(processed, intent) == ConfidenceLabel(ConfidenceScore(processed, intent))

\* which branch explain takes (lines 44-48)
ExplainBranch(data) ==
    IF GetFlag(data, "is_empty") THEN "empty"
    ELSE IF GetFlag(data, "is_error") THEN "error"
    ELSE "populated"

\* ResultExplainer.explain; completion is the outcome of the text completion
\* call made by _generate_explanation (used by the populated branch only)
Explain(question, intent, data, query_used, completion) ==
    CASE ExplainBranch(data) = "empty" -> Returned(HandleEmptyData(question, intent))
      [] ExplainBranch(data) = "error" -> HandleErrorData(question, data)
      [] OTHER ->
         LET processed == ProcessData(data) IN
         IF completion.raised
         THEN Raised(completion.exc,
                     ExplainResult(Answer("", "", <<>>), "low", NoQuery, NoneStr, {}, NoSummary, <<>>, <<>>))
         ELSE Returned(ExplainResult(Answer("", "", completion.value),
                                     CalculateConfidence(processed, intent),
                                     query_used, FirstSource(intent), {"raw_data"},
                                     processed.summary, <<>>, <<>>))

(***************************************************************************)
(* LLMClient: the offline (mock) provider                                  *)
(***************************************************************************)
\* A text is a sequence of tokens.  The keywords the mock provider looks for
\* that the lower-cased token contains:
MockKeywords(tok) ==
    CASE tok \in {"inventory", "inventory_forecast", "inventory_quantity", "inventoryItems"}
            -> {"inventory"}
      [] tok = "stockouts" -> {"stock"}
      [] tok = "reorder" -> {"reorder"}
      [] tok = "top" -> {"top"}
      [] tok = "selling" -> {"selling"}
      [] tok \in {"product", "products", "product_title", "product_details"} -> {"product"}
      [] tok \in {"customer", "customers", "customer_details", "customer_analysis"} -> {"customer"}
      [] tok = "repeat" -> {"repeat"}
      [] OTHER -> {}

TextKeywords(text) == UNION {MockKeywords(text[i]) : i \in 1..Len(text)}

\* the questions put to the service, as token sequences
TopSellingQuestion == <<"What", "were", "my", "top", "5", "selling", "products", "last", "week?">>
RepeatCustomersQuestion == <<"Which", "customers", "placed", "repeat", "orders?">>
Questions == {TopSellingQuestion, RepeatCustomersQuestion}

\* the four fixed texts of the mock provider (llm_client.py 192-221), by the
\* tokens the validator and the mock provider read
MockInventoryText  == <<"stockouts", "reorder", "selling", "sales", "from", "(", ")">>
MockTopSellingText == <<"top", "selling", "products", "from", "(", ")">>
MockCustomerText   == <<"customers", "repeat", "orders", "shows">>
MockGenericText    == <<"store", "products", "customer", "shows">>

\* a structured completion: each member present or not
IntentCompletion(hasIntent, primary_intent, hasSources, data_sources) ==
    [hasIntent |-> hasIntent, primary_intent |-> primary_intent,
     hasSources |-> hasSources, data_sources |-> data_sources]

\* LLMClient._generate_mock, response_format = "json", on the keywords of the
\* lower-cased prompt (lines 149-188); {"status": "ok"} has neither member
MockGenerateJson(kw) ==
    IF "analyze this question" \in kw
    THEN IF "inventory" \in kw \/ "stock" \in kw \/ "reorder" \in kw
         THEN IntentCompletion(TRUE, "inventory_forecast", TRUE, <<"inventory", "orders">>)
         ELSE IF "top" \in kw /\ ("selling" \in kw \/ "product" \in kw)
         THEN IntentCompletion(TRUE, "sales_analysis", TRUE, <<"orders", "products">>)
         ELSE IF "customer" \in kw \/ "repeat" \in kw
         THEN IntentCompletion(TRUE, "customer_analysis", TRUE, <<"customers", "orders">>)
         ELSE IntentCompletion(TRUE, "general_analysis", TRUE, <<"orders">>)
    ELSE IntentCompletion(FALSE, "", FALSE, <<>>)

\* LLMClient._generate_mock, response_format = "text" (lines 191-221)
MockGenerateText(kw) ==
    IF "inventory" \in kw \/ "reorder" \in kw THEN MockInventoryText
    ELSE IF "top" \in kw /\ "selling" \in kw THEN MockTopSellingText
    ELSE IF "customer" \in kw \/ "repeat" \in kw THEN MockCustomerText
    ELSE MockGenericText

(***************************************************************************)
(* AnalyticsAgent._understand_intent                                       *)
(***************************************************************************)
\* the keywords of the fixed text of the intent prompt (lines 94-115): it
\* names inventory_forecast, product_performance, customer_analysis, ...
IntentTemplateKeywords == {"analyze this question", "inventory", "product", "customer"}

\* no context given
NoContext == <<>>

IntentPromptKeywords(question, context) ==
    IntentTemplateKeywords \cup TextKeywords(question) \cup TextKeywords(context)

\* lines 119-126: defaults for missing members; DataSource(s) raises
\* ValueError on a name that is no data source, and QuestionIntent raises
\* ValidationError on a primary_intent that is null (not a str)
UnderstandIntent(response) ==
    LET goal == IF response.hasIntent THEN response.primary_intent ELSE "general_analysis"
        names == IF response.hasSources THEN response.data_sources ELSE <<"orders">>
    IN IF \E i \in 1..Len(names) : names[i] \notin DataSource
       THEN Raised("ValueError", QuestionIntent("", <<>>))
       ELSE IF goal = NoneStr
       THEN Raised("ValidationError", QuestionIntent("", <<>>))
       ELSE Returned(QuestionIntent(goal, names))

(***************************************************************************)
(* ShopifyQLGenerator                                                      *)
(***************************************************************************)
\* the keywords the validator looks for that the upper-cased token contains
ValidatorKeywords(tok) ==
    CASE tok \in {"FROM", "from"} -> {"FROM"}
      [] tok \in {"SHOW", "show", "shows"} -> {"SHOW"}
      [] tok \in {"sales", "SALES", "net_sales"} -> {"SALES"}
      [] tok \in {"orders", "ORDERS"} -> {"ORDERS"}
      [] tok \in {"products", "PRODUCTS"} -> {"PRODUCTS"}
      [] tok \in {"customers", "CUSTOMERS"} -> {"CUSTOMERS"}
      [] OTHER -> {}

\* keyword in query.upper()
HasKeyword(query, keyword) == \E i \in 1..Len(query) : keyword \in ValidatorKeywords(query[i])

\* query.count(ch)
Count(query, ch) == Len(SelectSeq(query, LAMBDA t : t = ch))

ValidTables == {"SALES", "ORDERS", "PRODUCTS", "CUSTOMERS"}

Validation(is_valid, errors) == [is_valid |-> is_valid, errors |-> errors]

\* _validate_query without query.upper(): the keywords are matched as written
ValidateQueryCaseSensitive(query) ==
    IF query = <<>> THEN Validation(FALSE, <<"Query is empty">>)
    ELSE LET Has(k) == \E i \in 1..Len(query) : query[i] = k
             errors ==
                (IF ~Has("FROM") THEN <<"Missing FROM clause">> ELSE <<>>)
             \o (IF ~\E t \in ValidTables : Has(t)
                 THEN <<"Invalid or missing table name">> ELSE <<>>)
             \o (IF ~Has("SHOW") THEN <<"Missing SHOW clause">> ELSE <<>>)
             \o (IF Count(query, "(") # Count(query, ")")
                 THEN <<"Unmatched parentheses">> ELSE <<>>)
         IN Validation(errors = <<>>, errors)

\* _validate_query returning at the first violated check
ValidateQueryFirstOnly(query) ==
    IF query = <<>> THEN Validation(FALSE, <<"Query is empty">>)
    ELSE IF ~HasKeyword(query, "FROM") THEN Validation(FALSE, <<"Missing FROM clause">>)
    ELSE IF ~\E t \in ValidTables : HasKeyword(query, t)
    THEN Validation(FALSE, <<"Invalid or missing table name">>)
    ELSE IF ~HasKeyword(query, "SHOW") THEN Validation(FALSE, <<"Missing SHOW clause">>)
    ELSE IF Count(query, "(") # Count(query, ")")
    THEN Validation(FALSE, <<"Unmatched parentheses">>)
    ELSE Validation(TRUE, <<>>)

\* _validate_query with SALES left out of valid_tables
ValidateQueryNoSalesTable(query) ==
    IF query = <<>> THEN Validation(FALSE, <<"Query is empty">>)
    ELSE LET errors ==
                (IF ~HasKeyword(query, "FROM") THEN <<"Missing FROM clause">> ELSE <<>>)
             \o (IF ~\E t \in ValidTables \ {"SALES"} : HasKeyword(query, t)
                 THEN <<"Invalid or missing table name">> ELSE <<>>)
             \o (IF ~HasKeyword(query, "SHOW") THEN <<"Missing SHOW clause">> ELSE <<>>)
             \o (IF Count(query, "(") # Count(query, ")")
                 THEN <<"Unmatched parentheses">> ELSE <<>>)
         IN Validation(errors = <<>>, errors)

\* ShopifyQLGenerator._validate_query
ValidateQuery(query) ==
    IF query = <<>> THEN Validation(FALSE, <<"Query is empty">>)
    ELSE LET errors ==
                (IF ~HasKeyword(query, "FROM") THEN <<"Missing FROM clause">> ELSE <<>>)
             \o (IF ~\E t \in ValidTables : HasKeyword(query, t)
                 THEN <<"Invalid or missing table name">> ELSE <<>>)
             \o (IF ~HasKeyword(query, "SHOW") THEN <<"Missing SHOW clause">> ELSE <<>>)
             \o (IF Count(query, "(") # Count(query, ")")
                 THEN <<"Unmatched parentheses">> ELSE <<>>)
         IN Validation(errors = <<>>, errors)

Whitespace == {"NL"}

RECURSIVE LStrip(_)
LStrip(text) ==
    IF text # <<>> /\ text[1] \in Whitespace THEN LStrip(Tail(text)) ELSE text

RECURSIVE RStrip(_)
RStrip(text) ==
    IF text # <<>> /\ text[Len(text)] \in Whitespace
    THEN RStrip(SubSeq(text, 1, Len(text) - 1)) ELSE text

\* str.strip()
Strip(text) == RStrip(LStrip(text))

\* the position of the first tok in text, 0 when there is none
IndexOf(text, tok) ==
    IF \E i \in 1..Len(text) : text[i] = tok
    THEN CHOOSE i \in 1..Len(text) : text[i] = tok /\ \A j \in 1..(i - 1) : text[j] # tok
    ELSE 0

\* the clean-up of _generate_with_llm (lines 180-186): the text between the
\* first two code fences; a language tag is cut off with its line, and
\* query.index("\n") raises ValueError when that line does not end
CleanQuery(response) ==
    LET q0 == Strip(response) IN
    IF q0 # <<>> /\ q0[1] = "FENCE"
    THEN LET rest == Tail(q0)
             close == IndexOf(rest, "FENCE")
             q1 == IF close = 0 THEN rest ELSE SubSeq(rest, 1, close - 1)
         IN IF q1 # <<>> /\ q1[1] \in {"sql", "shopifyql"}
            THEN IF IndexOf(q1, "NL") = 0
                 THEN Raised("ValueError", <<>>)
                 ELSE Returned(Strip(SubSeq(q1, IndexOf(q1, "NL") + 1, Len(q1))))
            ELSE Returned(Strip(q1))
    ELSE Returned(q0)

GraphQLIntents == {"customer_details", "order_details", "product_details"}

\* ShopifyQLGenerator._should_use_graphql
ShouldUseGraphQL(intent) == intent.primary_intent \in GraphQLIntents

\* ShopifyQLGenerator._describe_query
DescribeQuery(intent) ==
    CASE intent.primary_intent = "inventory_forecast"
            -> "Analyzing sales velocity and current inventory to project future needs"
      [] intent.primary_intent = "sales_analysis"
            -> "Aggregating sales data to identify top performers and trends"
      [] intent.primary_intent = "customer_analysis"
            -> "Analyzing customer purchase patterns and loyalty metrics"
      [] intent.primary_intent = "product_performance"
            -> "Evaluating product performance metrics"
      [] intent.primary_intent = "general_analysis"
            -> "Retrieving relevant store analytics"
      [] OTHER -> "Analyzing store data"

\* the dict returned by generate
GeneratedQuery(query, query_type, is_valid, validation_errors, description) ==
    [query |-> query, query_type |-> query_type, is_valid |-> is_valid,
     validation_errors |-> validation_errors, description |-> description]

NoGeneratedQuery == GeneratedQuery(NoQuery, "", FALSE, <<>>, "")

\* generate returning the first validation with the repaired text
GenerateNoRevalidate(intent, first, repair) ==
    IF ShouldUseGraphQL(intent)
    THEN Returned(GeneratedQuery(NoQuery, "graphql", FALSE, <<>>,
                                 "Query requires data not available in ShopifyQL"))
    ELSE IF first.raised THEN Raised(first.exc, NoGeneratedQuery)
    ELSE IF CleanQuery(first.value).raised THEN Raised("ValueError", NoGeneratedQuery)
    ELSE LET query == CleanQuery(first.value).value
             validation == ValidateQuery(query)
         IN IF validation.is_valid
            THEN Returned(GeneratedQuery(SomeQuery(query), "shopifyql", TRUE, <<>>,
                                         DescribeQuery(intent)))
            ELSE IF repair.raised THEN Raised(repair.exc, NoGeneratedQuery)
            ELSE Returned(GeneratedQuery(SomeQuery(Strip(repair.value)), "shopifyql",
                                         validation.is_valid, validation.errors,
                                         DescribeQuery(intent)))

\* ShopifyQLGenerator.generate; first and repair are the outcomes of the
\* completion calls of _generate_with_llm and _fix_query (the latter is
\* made only when the first validation fails)
Generate(intent, first, repair) ==
    IF ShouldUseGraphQL(intent)
    THEN Returned(GeneratedQuery(NoQuery, "graphql", FALSE, <<>>,
                                 "Query requires data not available in ShopifyQL"))
    ELSE IF first.raised THEN Raised(first.exc, NoGeneratedQuery)
    ELSE IF CleanQuery(first.value).raised THEN Raised("ValueError", NoGeneratedQuery)
    ELSE LET query == CleanQuery(first.value).value
             validation == ValidateQuery(query)
         IN IF validation.is_valid
            THEN Returned(GeneratedQuery(SomeQuery(query), "shopifyql", TRUE, <<>>,
                                         DescribeQuery(intent)))
            ELSE IF repair.raised THEN Raised(repair.exc, NoGeneratedQuery)
            ELSE LET fixed == Strip(repair.value)
                     again == ValidateQuery(fixed)
                 IN Returned(GeneratedQuery(SomeQuery(fixed), "shopifyql", again.is_valid,
                                            again.errors, DescribeQuery(intent)))

\* the keywords of the prompts of _generate_with_llm and _fix_query: the
\* schema reference and the closing lines name inventory, reordering, top
\* selling products and customers
\* the validation of line 130, when generate gets there
FirstValidation(intent, first) ==
    IF ShouldUseGraphQL(intent) \/ first.raised \/ CleanQuery(first.value).raised
    THEN Validation(FALSE, <<>>)
    ELSE ValidateQuery(CleanQuery(first.value).value)

\* the prompts generate gives to the text completion: that of
\* _generate_with_llm (line 177), then that of _fix_query (line 233) when the
\* first validation failed (line 132)
GenerateCalls(intent, first) ==
    IF ShouldUseGraphQL(intent) THEN <<>>
    ELSE <<"generate">> \o (IF FirstValidation(intent, first).errors # <<>> THEN <<"fix">> ELSE <<>>)

GenerateTemplateKeywords == {"inventory", "reorder", "top", "selling", "product", "customer"}
FixTemplateKeywords == {"inventory", "top", "selling", "product", "customer"}

GeneratePromptKeywords(intent) ==
    GenerateTemplateKeywords \cup MockKeywords(intent.primary_intent)
        \cup TextKeywords(intent.data_sources)

FixPromptKeywords(query) == FixTemplateKeywords \cup TextKeywords(query)

(***************************************************************************)
(* The inputs of one question                                              *)
(***************************************************************************)
\* settings.MAX_RETRIES
MAX_RETRIES == 3

\* settings.LLM_PROVIDER after LLMClient._initialize_client
Providers == {"mock", "openai", "anthropic"}

Contexts == {NoContext}

\* what a hosted provider may answer to the intent prompt
IntentCompletions ==
    {IntentCompletion(FALSE, "", FALSE, <<>>),
     IntentCompletion(TRUE, "sales_analysis", TRUE, <<"orders", "products">>),
     IntentCompletion(TRUE, "sales_analysis", TRUE, <<>>),
     IntentCompletion(TRUE, "sales_analysis", TRUE, <<"orders", "products", "inventory">>),
     IntentCompletion(TRUE, "inventory_forecast", TRUE, <<"inventory", "orders">>),
     IntentCompletion(TRUE, "customer_details", TRUE, <<"customers">>),
     IntentCompletion(TRUE, "order_details", TRUE, <<"orders">>),
     IntentCompletion(TRUE, "sales_analysis", TRUE, <<"orders", "refunds">>),
     IntentCompletion(TRUE, NoneStr, TRUE, <<"orders">>),
     IntentCompletion(TRUE, "sales_analysis", FALSE, <<>>),
     IntentCompletion(FALSE, "", TRUE, <<"products", "orders", "products">>),
     IntentCompletion(TRUE, "product_details", TRUE, <<"orders", "products", "inventory">>)}

ValidQueryText == <<"FROM", "sales", "SHOW", "x">>

\* what a hosted provider may answer to the query and to the repair prompt
QueryCompletions ==
    {ValidQueryText,
     <<"FENCE", "sql", "NL", "FROM", "sales", "SHOW", "x", "NL", "FENCE">>,
     <<"FENCE", "sql", "FROM", "sales", "SHOW", "x", "FENCE">>,
     <<"FROM", "sales">>,
     <<"NL">>}
RepairCompletions == {ValidQueryText, <<"FROM", "sales">>, <<"NL">>}

\* what a hosted provider may answer to the explanation prompt
ExplanationCompletions == {<<"Your", "store", "sold", "x">>}

\* the outcomes of one completion call: a text of texts, or an exception
CompletionOutcomes(texts) == {Returned(t) : t \in texts} \cup {Raised("APIError", <<>>)}

\* a structured completion call also fails in json.loads (llm_client.py 106, 133)
IntentOutcomes ==
    {Returned(c) : c \in IntentCompletions}
        \cup {Raised(e, IntentCompletion(FALSE, "", FALSE, <<>>)) : e \in {"APIError", "JSONDecodeError"}}

\* the tables a ShopifyQL response may carry: n rows, the cells of the
\* metric column all numbers, or with one text cell, or all None
TableColumns == {<<"product_title">>, <<"product_title", "units_sold">>}
CellPatterns == {"numbers", "one_text", "all_none"}

TableCell(col, i, pattern) ==
    IF col = "product_title" THEN Cell("text", 0)
    ELSE CASE pattern = "numbers" -> Cell("num", i)
           [] pattern = "one_text" -> IF i = 1 THEN Cell("text", 0) ELSE Cell("num", i)
           [] OTHER -> Cell("none", 0)

Table(columns, n, pattern) ==
    [columns |-> columns,
     rowData |-> [i \in 1..n |-> [j \in 1..Len(columns) |-> TableCell(columns[j], i, pattern)]]]

Tables ==
    {Table(<<"product_title">>, n, "numbers") : n \in 0..MaxRows}
        \cup {Table(<<"product_title", "units_sold">>, n, p) : n \in 0..MaxRows, p \in CellPatterns}

\* the upstream errors payloads
ErrorLists == SeqsUpTo(ErrEntries, MaxErrors) \ {<<>>}

\* the statuses the store answers with
Statuses == {200, 401, 500}

\* the answers of the store to the ShopifyQL request
ShopifyQLResponses ==
    {HttpResponse(st, "absent", FALSE, "absent", <<>>, FALSE, NoTable, NoKeyed) : st \in Statuses \ {200}}
        \cup {HttpResponse(200, d, TRUE, "absent", <<>>, FALSE, NoTable, NoKeyed) : d \in {"absent", "null"}}
        \cup {HttpResponse(200, "obj", TRUE, "null", <<>>, FALSE, NoTable, NoKeyed)}
        \cup {HttpResponse(200, "obj", FALSE, "obj", e, FALSE, NoTable, NoKeyed) : e \in ErrorLists}
        \cup {HttpResponse(200, "obj", FALSE, "obj", <<>>, TRUE, t, NoKeyed) : t \in Tables}
        \cup {HttpResponse(200, "obj", FALSE, "obj", <<>>, FALSE, NoTable, NoKeyed)}

\* ShopifyClient._build_graphql_query: the collections the fetch asks for
RequestedKeys(intent) ==
    LET ds == intent.data_sources IN
    (IF Contains(ds, "orders") \/ Contains(ds, "sales") THEN {"orders"} ELSE {})
        \cup (IF Contains(ds, "products") THEN {"products"} ELSE {})
        \cup (IF Contains(ds, "inventory") THEN {"inventoryItems"} ELSE {})
        \cup (IF Contains(ds, "customers") THEN {"customers"} ELSE {})

Edges(n) == [i \in 1..n |-> [node |-> i]]

\* the data of a successful fetch: the collections asked for, each with
\* some edges
KeyedData(keys) ==
    {[k \in KeyedKeys |-> IF k \in keys THEN Collection(TRUE, Edges(n[k]))
                                         ELSE Collection(FALSE, <<>>)] :
        n \in [KeyedKeys -> 0..MaxEdges]}

\* the answers of the store to the fallback fetch of an intent
GraphQLResponses(i) ==
    {HttpResponse(st, "absent", FALSE, "absent", <<>>, FALSE, NoTable, NoKeyed) : st \in Statuses \ {200}}
        \cup {HttpResponse(200, d, TRUE, "absent", <<>>, FALSE, NoTable, NoKeyed) : d \in {"absent", "null"}}
        \cup (IF RequestedKeys(i) = {} THEN {}
              ELSE {HttpResponse(200, "obj", FALSE, "absent", <<>>, FALSE, NoTable, k) :
                       k \in KeyedData(RequestedKeys(i))})

(***************************************************************************)
(* State: one question on its way through POST /analyze                    *)
(***************************************************************************)
VARIABLES
    pc,            \* the step the question is at
    provider,      \* LLMClient.provider
    question,      \* request.question
    context,       \* request.context
    intent,        \* the intent of step 1
    plan,          \* the plan of step 2
    query_result,  \* the dict of step 3
    attempts,      \* the attempts of _execute_query made so far
    path,          \* the client call of the last attempt
    upstream,      \* what the store answered to the last attempt
    data,          \* the Normalized Result of step 4
    branch,        \* the branch explain took
    result,        \* the dict of step 5
    exc,           \* the exception process_question raised, "" for none
    response,      \* the HTTP response of the endpoint
    llm_calls,     \* the prompts given to LLMClient.generate so far, in order
    first_validation, \* the validation of line 130 of generate
    intent_response,  \* the outcome of the completion call of _understand_intent
    tasks,         \* the questions in process_question at the same time, by task
    agents,        \* the AnalyticsAgent each of them constructed
    gw,            \* the requests the gateway routes are handling
    stores_db,     \* gateway_routes.stores_db
    request_logs   \* gateway_routes.request_logs

vars == <<pc, provider, question, context, intent, plan, query_result, attempts,
          path, upstream, data, branch, result, exc, response, llm_calls, first_validation,
          intent_response, tasks, agents, gw, stores_db, request_logs>>

\* the state of the concurrent questions and of the gateway
service == <<tasks, agents, gw, stores_db, request_logs>>

\* no concurrent question, no gateway request, nothing registered or logged
ServiceIdle ==
    /\ tasks = <<>>
    /\ agents = <<>>
    /\ gw = <<>>
    /\ stores_db = <<>>
    /\ request_logs = <<>>

\* no completion asked for yet
NoIntentResponse == Returned(IntentCompletion(FALSE, "", FALSE, <<>>))

\* generate has validated nothing yet
NoValidation == Validation(FALSE, <<>>)

NoIntent == QuestionIntent("", <<>>)
\* no answer of the store: nothing asked yet, or the connection failed
NoUpstream == HttpResponse(0, "absent", FALSE, "absent", <<>>, FALSE, NoTable, NoKeyed)
NoData == Normalized({}, FALSE, FALSE, <<>>, RawNone)
NoResult == ExplainResult(Answer("", "", <<>>), "", NoQuery, NoneStr, {}, NoSummary, <<>>, <<>>)

\* the HTTP response of POST /analyze: the AnalyzeResponse or the error detail
\* (error and suggestions are the members of the detail).  errors: the error
\* messages the body carries; AnalyzeResponse (lines 25-31) has no member
\* for them and lines 77-83 pass none
Response(status, answer, confidence, query_used, data_source, raw_data, error, suggestions) ==
    [status |-> status, answer |-> answer, confidence |-> confidence,
     query_used |-> query_used, data_source |-> data_source, raw_data |-> raw_data,
     errors |-> <<>>, error |-> error, suggestions |-> suggestions]

NoResponse == Response(0, Answer("", "", <<>>), "", NoQuery, NoneStr, NoSummary, "", <<>>)

Init ==
    /\ pc = "intent"
    /\ provider \in Providers
    /\ question \in Questions
    /\ context \in Contexts
    /\ intent = NoIntent
    /\ plan = <<>>
    /\ query_result = NoGeneratedQuery
    /\ attempts = 0
    /\ path = ""
    /\ upstream = NoUpstream
    /\ data = NoData
    /\ branch = ""
    /\ result = NoResult
    /\ exc = ""
    /\ response = NoResponse
    /\ llm_calls = <<>>
    /\ first_validation = NoValidation
    /\ intent_response = NoIntentResponse
    /\ ServiceIdle

\* the outcome of LLMClient.generate for a text prompt with keywords kw
TextOutcomes(kw, texts) ==
    IF provider = "mock" THEN {Returned(MockGenerateText(kw))} ELSE CompletionOutcomes(texts)

\* step 1, _understand_intent
UnderstandIntentStep ==
    /\ pc = "intent"
    /\ \E completion \in IF provider = "mock"
                         THEN {Returned(MockGenerateJson(IntentPromptKeywords(question, context)))}
                         ELSE IntentOutcomes :
          LET out == IF completion.raised THEN Raised(completion.exc, NoIntent)
                     ELSE UnderstandIntent(completion.value)
          IN /\ intent' = out.value
             /\ exc' = out.exc
             /\ pc' = IF out.raised THEN "respond" ELSE "plan"
             /\ intent_response' = completion
    /\ llm_calls' = Append(llm_calls, "intent")
    /\ UNCHANGED <<provider, question, context, plan, query_result, attempts, path,
                   upstream, data, branch, result, response, first_validation, service>>

\* step 2, _create_plan
CreatePlanStep ==
    /\ pc = "plan"
    /\ plan' = CreatePlan(intent)
    /\ pc' = "generate"
    /\ UNCHANGED <<provider, question, context, intent, query_result, attempts, path,
                   upstream, data, branch, result, exc, response,
                   llm_calls, first_validation, intent_response, service>>

\* line 74, the log entry after step 3: query_result.get("query", "")[:100]
\* subscripts None, and raises TypeError, when the dict carries query None
LogQueryGenerated(q) ==
    IF q.query = NoQuery THEN Raised("TypeError", q) ELSE Returned(q)

\* step 3, _generate_query, and its log entry
GenerateQueryStep ==
    /\ pc = "generate"
    /\ \E first \in TextOutcomes(GeneratePromptKeywords(intent), QueryCompletions) :
       \E repair \in TextOutcomes(FixPromptKeywords(IF first.raised \/ CleanQuery(first.value).raised
                                                    THEN <<>>
                                                    ELSE CleanQuery(first.value).value),
                                  RepairCompletions) :
          LET generated == Generate(intent, first, repair)
              out == IF generated.raised THEN generated
                     ELSE LogQueryGenerated(generated.value)
          IN /\ query_result' = out.value
             /\ exc' = out.exc
             /\ pc' = IF out.raised THEN "respond" ELSE "execute"
             /\ llm_calls' = llm_calls \o GenerateCalls(intent, first)
             /\ first_validation' = FirstValidation(intent, first)
    /\ UNCHANGED <<provider, question, context, intent, plan, attempts, path,
                   upstream, data, branch, result, response, intent_response, service>>

\* the path chosen by the query type alone
ExecutePathByType(q) ==
    IF q.query_type = "shopifyql" THEN "shopifyql" ELSE "graphql"

\* the client call _execute_query makes (line 194)
ExecutePath(q) ==
    IF q.query_type = "shopifyql" /\ q.query.some /\ q.query.text # <<>>
    THEN "shopifyql" ELSE "graphql"

\* the retry stopping one attempt late (stop_after_attempt read as a count of retries)
ExecuteQueryStepOneMore ==
    /\ pc = "execute"
    /\ attempts <= MAX_RETRIES
    /\ LET p == ExecutePath(query_result) IN
       \E r \in {NoUpstream} \cup (IF p = "shopifyql" THEN ShopifyQLResponses
                                                      ELSE GraphQLResponses(intent)) :
          LET out == IF r = NoUpstream THEN Raised("ConnectError", RawNone)
                     ELSE IF p = "shopifyql" THEN ExecuteShopifyQL(r)
                     ELSE ExecuteGraphQL(r)
          IN /\ path' = p
             /\ upstream' = r
             /\ attempts' = attempts + 1
             /\ IF out.raised
                THEN /\ data' = data
                     /\ exc' = IF attempts = MAX_RETRIES THEN "RetryError" ELSE ""
                     /\ pc' = IF attempts = MAX_RETRIES THEN "respond" ELSE "execute"
                ELSE /\ data' = ValidateAndProcessData(out.value)
                     /\ exc' = ""
                     /\ pc' = "explain"
    /\ UNCHANGED <<provider, question, context, intent, plan, query_result,
                   branch, result, response,
                   llm_calls, first_validation, intent_response, service>>

\* the retry giving up with no data instead of raising
ExecuteQueryStepGiveUpEmpty ==
    /\ pc = "execute"
    /\ attempts < MAX_RETRIES
    /\ LET p == ExecutePath(query_result) IN
       \E r \in {NoUpstream} \cup (IF p = "shopifyql" THEN ShopifyQLResponses
                                                      ELSE GraphQLResponses(intent)) :
          LET out == IF r = NoUpstream THEN Raised("ConnectError", RawNone)
                     ELSE IF p = "shopifyql" THEN ExecuteShopifyQL(r)
                     ELSE ExecuteGraphQL(r)
          IN /\ path' = p
             /\ upstream' = r
             /\ attempts' = attempts + 1
             /\ IF out.raised
                THEN /\ data' = IF attempts + 1 = MAX_RETRIES
                                THEN ValidateAndProcessData(RawNone) ELSE data
                     /\ exc' = ""
                     /\ pc' = IF attempts + 1 = MAX_RETRIES THEN "explain" ELSE "execute"
                ELSE /\ data' = ValidateAndProcessData(out.value)
                     /\ exc' = ""
                     /\ pc' = "explain"
    /\ UNCHANGED <<provider, question, context, intent, plan, query_result,
                   branch, result, response,
                   llm_calls, first_validation, intent_response, service>>

\* step 4, one attempt of _execute_query under the retry decorator: the
\* store answers or the connection fails; an attempt that raises is made
\* again until MAX_RETRIES attempts have been made
ExecuteQueryStep ==
    /\ pc = "execute"
    /\ attempts < MAX_RETRIES
    /\ LET p == ExecutePath(query_result) IN
       \E r \in {NoUpstream} \cup (IF p = "shopifyql" THEN ShopifyQLResponses
                                                      ELSE GraphQLResponses(intent)) :
          LET out == IF r = NoUpstream THEN Raised("ConnectError", RawNone)
                     ELSE IF p = "shopifyql" THEN ExecuteShopifyQL(r)
                     ELSE ExecuteGraphQL(r)
          IN /\ path' = p
             /\ upstream' = r
             /\ attempts' = attempts + 1
             /\ IF out.raised
                THEN /\ data' = data
                     /\ exc' = IF attempts + 1 = MAX_RETRIES THEN "RetryError" ELSE ""
                     /\ pc' = IF attempts + 1 = MAX_RETRIES THEN "respond" ELSE "execute"
                ELSE /\ data' = ValidateAndProcessData(out.value)
                     /\ exc' = ""
                     /\ pc' = "explain"
    /\ UNCHANGED <<provider, question, context, intent, plan, query_result,
                   branch, result, response,
                   llm_calls, first_validation, intent_response, service>>

\* the keywords of the explanation prompt: the question, the summary keys
\* and the column names
ExplainPromptKeywords(q, processed) ==
    TextKeywords(q) \cup TextKeywords(processed.table.columns)
        \cup UNION {IF processed.keyed[k].present THEN MockKeywords(k) ELSE {} : k \in KeyedKeys}

\* explain asking for an explanation in every branch
ExplainCallsAlways(d) == <<"explain">>

\* the prompt explain gives to the text completion: only the populated
\* branch reaches _generate_explanation (result_explainer.py line 57)
ExplainCalls(d) == IF ExplainBranch(d) = "populated" THEN <<"explain">> ELSE <<>>

\* step 5, _explain_results
ExplainStep ==
    /\ pc = "explain"
    /\ \E completion \in TextOutcomes(ExplainPromptKeywords(question, ProcessData(data)),
                                      ExplanationCompletions) :
          LET out == Explain(question, intent, data, query_result.query, completion)
          IN /\ branch' = ExplainBranch(data)
             /\ result' = out.value
             /\ exc' = out.exc
             /\ pc' = "respond"
    /\ llm_calls' = llm_calls \o ExplainCalls(data)
    /\ UNCHANGED <<provider, question, context, intent, plan, query_result, attempts,
                   path, upstream, data, response, first_validation, intent_response, service>>

\* the exceptions that are ValueErrors (routes.py line 85)
ValueErrors == {"ValueError", "JSONDecodeError", "ValidationError"}

\* routes.py 77-101: the AnalyzeResponse of a result, or the HTTPException
AnalyzeQuestionResponse(res, e) ==
    IF e = ""
    THEN Response(200, res.answer, res.confidence, res.query_used, res.data_source,
                  IF "raw_data" \in res.keys THEN res.raw_data ELSE NoSummary, "", <<>>)
    ELSE IF e \in ValueErrors
    THEN Response(400, Answer("", "", <<>>), "", NoQuery, NoneStr, NoSummary, e, <<>>)
    ELSE Response(500, Answer("", "", <<>>), "", NoQuery, NoneStr, NoSummary,
                  "Failed to process question",
                  <<"Try rephrasing your question",
                    "Ensure you're asking about orders, products, inventory, or customers",
                    "Check if your store has the required data">>)

\* analyze_question returns
Respond ==
    /\ pc = "respond"
    /\ response' = AnalyzeQuestionResponse(result, exc)
    /\ pc' = "done"
    /\ UNCHANGED <<provider, question, context, intent, plan, query_result, attempts,
                   path, upstream, data, branch, result, exc,
                   llm_calls, first_validation, intent_response, service>>

Next ==
    \/ UnderstandIntentStep
    \/ CreatePlanStep
    \/ GenerateQueryStep
    \/ ExecuteQueryStep
    \/ ExplainStep
    \/ Respond

Spec == Init /\ [][Next]_vars

(***************************************************************************)
(* The plan builder on every intent                                        *)
(***************************************************************************)
Goals == {"sales_analysis", "inventory_forecast", "customer_details", "general_analysis"}

InitPlan ==
    /\ pc = "plan"
    /\ provider \in Providers
    /\ question \in Questions
    /\ context \in Contexts
    /\ intent \in {QuestionIntent(g, ds) : g \in Goals, ds \in SeqsUpTo(DataSource, MaxSources)}
    /\ plan = <<>>
    /\ query_result = NoGeneratedQuery
    /\ attempts = 0
    /\ path = ""
    /\ upstream = NoUpstream
    /\ data = NoData
    /\ branch = ""
    /\ result = NoResult
    /\ exc = ""
    /\ response = NoResponse
    /\ llm_calls = <<>>
    /\ first_validation = NoValidation
    /\ intent_response = NoIntentResponse
    /\ ServiceIdle

SpecPlan == InitPlan /\ [][CreatePlanStep]_vars

(***************************************************************************)
(* The result explainer on every Normalized Result                         *)
(***************************************************************************)
\* every dict the two client calls can return
RawResults ==
    {ExecuteShopifyQL(r).value : r \in ShopifyQLResponses}
        \cup UNION {{ExecuteGraphQL(HttpResponse(200, "obj", FALSE, "absent", <<>>, FALSE, NoTable, k)).value :
                        k \in KeyedData(keys)} : keys \in SUBSET KeyedKeys}

ExplainGoals == {"sales_analysis", "inventory_forecast", "sales_forecast"}

ExplainIntents ==
    {QuestionIntent(g, ds) : g \in ExplainGoals,
                             ds \in {<<>>, <<"orders">>, <<"products", "orders">>}}

InitExplain ==
    /\ pc = "explain"
    /\ provider \in {"mock", "openai"}
    /\ question \in Questions
    /\ context \in Contexts
    /\ intent \in ExplainIntents
    /\ plan = CreatePlan(intent)
    /\ query_result \in {GeneratedQuery(SomeQuery(ValidQueryText), "shopifyql", TRUE, <<>>,
                                         DescribeQuery(intent))}
    /\ attempts = 1
    /\ path = "shopifyql"
    /\ upstream = NoUpstream
    /\ data \in {ValidateAndProcessData(raw) : raw \in RawResults}
    /\ branch = ""
    /\ result = NoResult
    /\ exc = ""
    /\ response = NoResponse
    /\ llm_calls = <<"intent", "generate">>
    /\ first_validation = Validation(TRUE, <<>>)
    /\ intent_response = NoIntentResponse
    /\ ServiceIdle

NextExplain == ExplainStep \/ Respond

SpecExplain == InitExplain /\ [][NextExplain]_vars

(***************************************************************************)
(* The query validator on every query text                                 *)
(***************************************************************************)
\* the tokens of the query texts: clause keywords in either case, a table
\* name, a field name that contains one, parentheses and a plain word
QueryTokens == {"FROM", "show", "sales", "(", ")", "x"}

QueryTexts == SeqsUpTo(QueryTokens, MaxQueryLen)

InitValidate ==
    /\ pc = "validate"
    /\ provider = "mock"
    /\ question = TopSellingQuestion
    /\ context = NoContext
    /\ intent = QuestionIntent("sales_analysis", <<"orders">>)
    /\ plan = <<>>
    /\ query_result \in {GeneratedQuery(SomeQuery(q), "shopifyql", FALSE, <<>>, "") :
                            q \in QueryTexts}
    /\ attempts = 0
    /\ path = ""
    /\ upstream = NoUpstream
    /\ data = NoData
    /\ branch = ""
    /\ result = NoResult
    /\ exc = ""
    /\ response = NoResponse
    /\ llm_calls = <<>>
    /\ first_validation = NoValidation
    /\ intent_response = NoIntentResponse
    /\ ServiceIdle

\* validation = self._validate_query(query), and the is_valid and
\* validation_errors members of the dict generate returns
ValidateQueryStep ==
    /\ pc = "validate"
    /\ LET validation == ValidateQuery(query_result.query.text)
       IN /\ query_result' = [query_result EXCEPT !.is_valid = validation.is_valid,
                                                  !.validation_errors = validation.errors]
          /\ first_validation' = validation
    /\ pc' = "validated"
    /\ UNCHANGED <<provider, question, context, intent, plan, attempts, path,
                   upstream, data, branch, result, exc, response, llm_calls, intent_response, service>>

SpecValidate == InitValidate /\ [][ValidateQueryStep]_vars

(***************************************************************************)
(* The query templates through the validator                               *)
(***************************************************************************)
\* the text of an integer in an f-string
Int2Str(n) == ToString(n)

\* QueryTemplates.top_selling_products
top_selling_products(days, limit) ==
    <<"NL", "FROM", "sales", "NL",
      "SHOW", "product_title", ",", "SUM", "(", "ordered_item_quantity", ")", "AS", "units_sold",
      ",", "SUM", "(", "net_sales", ")", "AS", "revenue", "NL",
      "GROUP", "BY", "product_title", "NL",
      "SINCE", "-", Int2Str(days), "d", "NL",
      "ORDER", "BY", "units_sold", "DESC", "NL",
      "LIMIT", Int2Str(limit), "NL">>

\* QueryTemplates.daily_sales
daily_sales(days) ==
    <<"NL", "FROM", "sales", "NL",
      "SHOW", "day", ",", "SUM", "(", "net_sales", ")", "AS", "daily_revenue",
      ",", "SUM", "(", "ordered_item_quantity", ")", "AS", "units", "NL",
      "GROUP", "BY", "day", "NL",
      "SINCE", "-", Int2Str(days), "d", "NL",
      "ORDER", "BY", "day", "ASC", "NL">>

\* QueryTemplates.product_inventory
product_inventory ==
    <<"NL", "FROM", "products", "NL",
      "SHOW", "product_title", ",", "variant_sku", ",", "inventory_quantity", "NL",
      "WHERE", "inventory_quantity", ">", "0", "NL",
      "ORDER", "BY", "inventory_quantity", "ASC", "NL">>

\* QueryTemplates.low_stock_alert
low_stock_alert(threshold) ==
    <<"NL", "FROM", "products", "NL",
      "SHOW", "product_title", ",", "variant_sku", ",", "inventory_quantity", "NL",
      "WHERE", "inventory_quantity", "<=", Int2Str(threshold), "NL",
      "ORDER", "BY", "inventory_quantity", "ASC", "NL">>

\* QueryTemplates.sales_by_product
sales_by_product(days) ==
    <<"NL", "FROM", "sales", "NL",
      "SHOW", "product_title", ",", "SUM", "(", "ordered_item_quantity", ")", "AS", "total_sold",
      ",", "SUM", "(", "net_sales", ")", "AS", "total_revenue", "NL",
      "GROUP", "BY", "product_title", "NL",
      "SINCE", "-", Int2Str(days), "d", "NL",
      "ORDER", "BY", "total_sold", "DESC", "NL">>

\* the parameter values: a range around zero and the defaults of the templates
TemplateParams == (-MaxParam..MaxParam) \cup {5, 7, 10, 30}

\* every rendering of every template
RenderedTemplates ==
    {top_selling_products(d, l) : d \in TemplateParams, l \in TemplateParams}
        \cup {daily_sales(d) : d \in TemplateParams}
        \cup {product_inventory}
        \cup {low_stock_alert(t) : t \in TemplateParams}
        \cup {sales_by_product(d) : d \in TemplateParams}

InitTemplates ==
    /\ pc = "validate"
    /\ provider = "mock"
    /\ question = TopSellingQuestion
    /\ context = NoContext
    /\ intent = QuestionIntent("sales_analysis", <<"orders">>)
    /\ plan = <<>>
    /\ query_result \in {GeneratedQuery(SomeQuery(q), "shopifyql", FALSE, <<>>, "") :
                            q \in RenderedTemplates}
    /\ attempts = 0
    /\ path = ""
    /\ upstream = NoUpstream
    /\ data = NoData
    /\ branch = ""
    /\ result = NoResult
    /\ exc = ""
    /\ response = NoResponse
    /\ llm_calls = <<>>
    /\ first_validation = NoValidation
    /\ intent_response = NoIntentResponse
    /\ ServiceIdle

SpecTemplates == InitTemplates /\ [][ValidateQueryStep]_vars

(***************************************************************************)
(* Questions processed at the same time                                    *)
(***************************************************************************)
\* Each POST /analyze runs analyze_question as one task; a task gives way
\* to the others only while it awaits a completion or an answer of the
\* store.  A step below is what a task does between two such awaits.
TaskIds == {1, 2}

StoreIds == {"a.myshopify.com", "b.myshopify.com"}

\* the variables of the single question
single == <<pc, provider, question, context, intent, plan, query_result, attempts,
            path, upstream, data, branch, result, exc, response, llm_calls,
            first_validation, intent_response>>

\* a request on the network: a prompt, the ShopifyQL post or the fetch
Request(kind, what, store, keys) == [kind |-> kind, what |-> what, store |-> store, keys |-> keys]

\* AnalyticsAgent(store_id, access_token) with its ShopifyClient
Agent(store_id) == [store_id |-> store_id]
NoAgent == Agent("")

\* the completions one question gets, in the order it asks for them
Scripts ==
    {[intent |-> Returned(c), first |-> Returned(f), repair |-> Returned(r),
      explain |-> Returned(<<"Your", "store", "sold", "x">>)] :
        c \in {IntentCompletion(TRUE, "sales_analysis", TRUE, <<"orders", "products">>),
               IntentCompletion(TRUE, "customer_details", TRUE, <<"customers">>)},
        f \in {ValidQueryText, <<"NL">>},
        r \in {<<"NL">>, ValidQueryText}}

\* what each store answers: a.myshopify.com has data, b.myshopify.com
\* refuses the ShopifyQL post and cannot be reached by the fetch
StoreAnswer(store, p, keys) ==
    IF store = "a.myshopify.com"
    THEN IF p = "shopifyql"
         THEN HttpResponse(200, "obj", FALSE, "obj", <<>>, TRUE,
                           Table(<<"product_title", "units_sold">>, 2, "numbers"), NoKeyed)
         ELSE HttpResponse(200, "obj", FALSE, "absent", <<>>, FALSE, NoTable,
                           [k \in KeyedKeys |-> IF k \in keys THEN Collection(TRUE, Edges(1))
                                                ELSE Collection(FALSE, <<>>)])
    ELSE IF p = "shopifyql"
         THEN HttpResponse(401, "absent", FALSE, "absent", <<>>, FALSE, NoTable, NoKeyed)
         ELSE NoUpstream

\* a question as analyze_question receives it
NewTask(store, q, script) ==
    [pc |-> "construct", store |-> store, question |-> q, script |-> script,
     intent |-> NoIntent, plan |-> <<>>, query_result |-> NoGeneratedQuery,
     attempts |-> 0, path |-> "", upstream |-> NoUpstream, data |-> NoData,
     result |-> NoResult, exc |-> "", response |-> NoResponse,
     in_flight |-> {}, calls |-> <<>>]

\* the requests one execution attempt sends, all categories in one
FetchPerCategory(q, i, agent) ==
    IF ExecutePath(q) = "shopifyql"
    THEN {Request("shopifyql", "query", agent.store_id, {})}
    ELSE {Request("graphql", "fetch", agent.store_id, {k}) : k \in RequestedKeys(i)}

\* the request one execution attempt sends (_execute_query 191-199): the
\* ShopifyQL post, or one fetch whose query holds every category of the
\* intent (_build_graphql_query)
ExecuteRequests(q, i, agent) ==
    IF ExecutePath(q) = "shopifyql"
    THEN {Request("shopifyql", "query", agent.store_id, {})}
    ELSE {Request("graphql", "fetch", agent.store_id, RequestedKeys(i))}

\* generate has its completions: the dict it returns and the log entry
TaskGenerated(rec) ==
    LET generated == Generate(rec.intent, rec.script.first, rec.script.repair)
        out == IF generated.raised THEN generated ELSE LogQueryGenerated(generated.value)
    IN [rec EXCEPT !.query_result = out.value,
                   !.exc = out.exc,
                   !.pc = IF out.raised THEN "respond" ELSE "execute"]

\* one attempt of _execute_query has its answer
TaskExecuted(rec) ==
    LET sent == CHOOSE q \in rec.in_flight : TRUE
        r == StoreAnswer(sent.store, rec.path, UNION {q.keys : q \in rec.in_flight})
        out == IF r = NoUpstream THEN Raised("ConnectError", RawNone)
               ELSE IF rec.path = "shopifyql" THEN ExecuteShopifyQL(r)
               ELSE ExecuteGraphQL(r)
        last == rec.attempts + 1 = MAX_RETRIES
    IN IF out.raised
       THEN [rec EXCEPT !.in_flight = {},
                        !.upstream = r,
                        !.attempts = @ + 1,
                        !.exc = IF last THEN "RetryError" ELSE "",
                        !.pc = IF last THEN "respond" ELSE "execute"]
       ELSE [rec EXCEPT !.in_flight = {},
                        !.upstream = r,
                        !.attempts = @ + 1,
                        !.data = ValidateAndProcessData(out.value),
                        !.pc = "explain"]

\* explain returns
TaskExplained(rec) ==
    LET out == Explain(rec.question, rec.intent, rec.data, rec.query_result.query,
                       rec.script.explain)
    IN [rec EXCEPT !.result = out.value, !.exc = out.exc, !.pc = "respond"]

\* what a question does from one await of the network to the next, with the
\* agent it holds
TaskNext(rec, agent) ==
    CASE rec.pc = "construct" -> [rec EXCEPT !.pc = "intent"]
      [] rec.pc = "intent" ->
            [rec EXCEPT !.pc = "intent_wait",
                        !.in_flight = {Request("llm", "intent", "", {})},
                        !.calls = Append(@, "intent")]
      [] rec.pc = "intent_wait" ->
            LET out == IF rec.script.intent.raised
                       THEN Raised(rec.script.intent.exc, NoIntent)
                       ELSE UnderstandIntent(rec.script.intent.value)
            IN [rec EXCEPT !.in_flight = {},
                           !.intent = out.value,
                           !.exc = out.exc,
                           !.pc = IF out.raised THEN "respond" ELSE "plan"]
      [] rec.pc = "plan" ->
            [rec EXCEPT !.plan = CreatePlan(rec.intent), !.pc = "generate"]
      [] rec.pc = "generate" ->
            IF ShouldUseGraphQL(rec.intent) THEN TaskGenerated(rec)
            ELSE [rec EXCEPT !.pc = "generate_wait",
                             !.in_flight = {Request("llm", "generate", "", {})},
                             !.calls = Append(@, "generate")]
      [] rec.pc = "generate_wait" ->
            IF FirstValidation(rec.intent, rec.script.first).errors # <<>>
            THEN [rec EXCEPT !.pc = "fix_wait",
                             !.in_flight = {Request("llm", "fix", "", {})},
                             !.calls = Append(@, "fix")]
            ELSE TaskGenerated([rec EXCEPT !.in_flight = {}])
      [] rec.pc = "fix_wait" -> TaskGenerated([rec EXCEPT !.in_flight = {}])
      [] rec.pc = "execute" ->
            [rec EXCEPT !.pc = "execute_wait",
                        !.path = ExecutePath(rec.query_result),
                        !.in_flight = ExecuteRequests(rec.query_result, rec.intent, agent),
                        !.calls = Append(@, ExecutePath(rec.query_result))]
      [] rec.pc = "execute_wait" -> TaskExecuted(rec)
      [] rec.pc = "explain" ->
            IF ExplainBranch(rec.data) = "populated"
            THEN [rec EXCEPT !.pc = "explain_wait",
                             !.in_flight = {Request("llm", "explain", "", {})},
                             !.calls = Append(@, "explain")]
            ELSE TaskExplained(rec)
      [] rec.pc = "explain_wait" -> TaskExplained([rec EXCEPT !.in_flight = {}])
      [] rec.pc = "respond" ->
            [rec EXCEPT !.response = AnalyzeQuestionResponse(rec.result, rec.exc),
                        !.pc = "done"]
      [] OTHER -> rec

\* one agent for the whole service
AgentSlotShared(t) == 1

\* routes.py 59-62: every request constructs the agent it uses
AgentSlot(t) == t

\* the question processed with no other question in the service
RECURSIVE RunAlone(_)
RunAlone(rec) ==
    IF rec.pc = "done" THEN rec ELSE RunAlone(TaskNext(rec, Agent(rec.store)))

\* the single question at rest
SingleIdle ==
    /\ pc = "idle"
    /\ provider = "mock"
    /\ question = <<>>
    /\ context = NoContext
    /\ intent = NoIntent
    /\ plan = <<>>
    /\ query_result = NoGeneratedQuery
    /\ attempts = 0
    /\ path = ""
    /\ upstream = NoUpstream
    /\ data = NoData
    /\ branch = ""
    /\ result = NoResult
    /\ exc = ""
    /\ response = NoResponse
    /\ llm_calls = <<>>
    /\ first_validation = NoValidation
    /\ intent_response = NoIntentResponse

InitConcurrent ==
    /\ SingleIdle
    /\ tasks \in [TaskIds -> {NewTask(st, TopSellingQuestion, sc) : st \in StoreIds, sc \in Scripts}]
    /\ agents = [t \in TaskIds |-> NoAgent]
    /\ gw = <<>>
    /\ stores_db = <<>>
    /\ request_logs = <<>>

\* analyze_question constructs the agent of the request
ConstructAgent(t) ==
    /\ tasks[t].pc = "construct"
    /\ agents' = [agents EXCEPT ![AgentSlot(t)] = Agent(tasks[t].store)]
    /\ tasks' = [tasks EXCEPT ![t] = TaskNext(tasks[t], NoAgent)]
    /\ UNCHANGED <<single, gw, stores_db, request_logs>>

\* the question sends a request and awaits it
TaskSend(t) ==
    /\ tasks[t].pc \notin {"construct", "done"}
    /\ TaskNext(tasks[t], agents[AgentSlot(t)]).in_flight # {}
    /\ tasks' = [tasks EXCEPT ![t] = TaskNext(tasks[t], agents[AgentSlot(t)])]
    /\ UNCHANGED <<single, agents, gw, stores_db, request_logs>>

\* the question goes on to its next await, or returns
TaskResume(t) ==
    /\ tasks[t].pc \notin {"construct", "done"}
    /\ TaskNext(tasks[t], agents[AgentSlot(t)]).in_flight = {}
    /\ tasks' = [tasks EXCEPT ![t] = TaskNext(tasks[t], agents[AgentSlot(t)])]
    /\ UNCHANGED <<single, agents, gw, stores_db, request_logs>>

NextConcurrent ==
    \/ \E t \in TaskIds : ConstructAgent(t)
    \/ \E t \in TaskIds : TaskSend(t)
    \/ \E t \in TaskIds : TaskResume(t)

SpecConcurrent == InitConcurrent /\ [][NextConcurrent]_vars

(***************************************************************************)
(* The gateway: the store registry and the request log                     *)
(***************************************************************************)
\* the requests the gateway receives in one run
MaxRequests == 3

\* the largest limit asked of the logs route
MaxLimit == 2

\* a domain is its name, with or without the suffix
GwDomains == {<<"a">>, <<"b", ".myshopify.com">>}
GwTokens == {"shpat_1", "shpat_2"}

\* connect_store 63-65, ask_question 162-164
NormalizeDomain(d) ==
    IF d # <<>> /\ d[Len(d)] = ".myshopify.com" THEN d ELSE Append(d, ".myshopify.com")

\* what GET shop.json comes to: a status with a body, or httpx.RequestError
RequestError == [status |-> 0, shop |-> ""]
CheckOutcomes ==
    {[status |-> 200, shop |-> "obj"], [status |-> 200, shop |-> "null"],
     [status |-> 401, shop |-> ""], [status |-> 404, shop |-> ""], RequestError}

\* what POST /api/v1/analyze comes to
AnalysisOutcomes == {200, 400, 500, 0}

\* a request of the gateway with what the store or the analysis service
\* answered to it (answered, 0 while there is no answer) and its response
GwRequest(kind, p, domain, token, limit, forwarded, status, detail, logs) ==
    [kind |-> kind, pc |-> p, domain |-> domain, store |-> NormalizeDomain(domain),
     token |-> token, limit |-> limit, forwarded |-> forwarded, answered |-> 0,
     status |-> status, detail |-> detail, logs |-> logs]

\* the entry stores_db keeps for a store
StoreEntry(shop_domain, access_token) ==
    [shop_domain |-> shop_domain, access_token |-> access_token]

\* the entry ask_question appends to request_logs; the question is told by
\* the request that asked it
LogEntry(store_id, q) == [store_id |-> store_id, question |-> q]

\* connect_store writing the entry before it has the answer of the store
ConnectStoreWriteFirst(db, req, out) ==
    LET written == (req.store :> StoreEntry(req.store, req.token)) @@ db IN
    CASE out = RequestError ->
            [db |-> written, status |-> 500, detail |-> "Connection error"]
      [] out.status = 401 ->
            [db |-> written, status |-> 401, detail |-> "Invalid access token"]
      [] out.status # 200 ->
            [db |-> written, status |-> out.status, detail |-> "Failed to connect to Shopify"]
      [] out.shop = "null" ->
            [db |-> written, status |-> 500, detail |-> "Internal Server Error"]
      [] OTHER ->
            [db |-> written, status |-> 200, detail |-> ""]

\* connect_store once GET shop.json has come back: the registry after it and
\* the response.  A body {"shop": null} makes shop_info.get raise inside
\* the dict literal of line 92, before the assignment.
ConnectStore(db, req, out) ==
    CASE out = RequestError ->
            [db |-> db, status |-> 500, detail |-> "Connection error"]
      [] out.status = 401 ->
            [db |-> db, status |-> 401, detail |-> "Invalid access token"]
      [] out.status # 200 ->
            [db |-> db, status |-> out.status, detail |-> "Failed to connect to Shopify"]
      [] out.shop = "null" ->
            [db |-> db, status |-> 500, detail |-> "Internal Server Error"]
      [] OTHER ->
            [db |-> (req.store :> StoreEntry(req.store, req.token)) @@ db,
             status |-> 200, detail |-> ""]

\* the index a Python slice starts at: s[k:] on a list of n entries
SliceStart(n, k) ==
    IF k >= 0 THEN (IF k < n THEN k ELSE n)
    ELSE (IF n + k > 0 THEN n + k ELSE 0)

Reversed(s) == [i \in 1..Len(s) |-> s[Len(s) + 1 - i]]

\* get_request_logs: request_logs[-limit:][::-1]
GetRequestLogs(logs, limit) ==
    Reversed(SubSeq(logs, SliceStart(Len(logs), 0 - limit) + 1, Len(logs)))

InitGateway ==
    /\ SingleIdle
    /\ tasks = <<>>
    /\ agents = <<>>
    /\ gw = <<>>
    /\ stores_db = <<>>
    /\ request_logs = <<>>

\* POST /gateway/stores/connect arrives and awaits GET shop.json
ConnectStoreRequest ==
    /\ Len(gw) < MaxRequests
    /\ \E d \in GwDomains, tok \in GwTokens :
          gw' = Append(gw, GwRequest("connect", "check", d, tok, 0, FALSE, 0, "", <<>>))
    /\ UNCHANGED <<single, tasks, agents, stores_db, request_logs>>

\* the store has answered the credential check
ConnectStoreChecked ==
    \E i \in 1..Len(gw) :
        /\ gw[i].kind = "connect"
        /\ gw[i].pc = "check"
        /\ \E out \in CheckOutcomes :
              LET r == ConnectStore(stores_db, gw[i], out)
              IN /\ stores_db' = r.db
                 /\ gw' = [gw EXCEPT ![i].pc = "done", ![i].answered = out.status,
                                     ![i].status = r.status, ![i].detail = r.detail]
        /\ UNCHANGED <<single, tasks, agents, request_logs>>

\* POST /gateway/questions arrives: rejected at once when the store is not
\* in the registry, else forwarded with the token of the registry
AskQuestionRequest ==
    /\ Len(gw) < MaxRequests
    /\ \E d \in GwDomains :
          IF NormalizeDomain(d) \notin DOMAIN stores_db
          THEN gw' = Append(gw, GwRequest("ask", "done", d, "", 0, FALSE, 401,
                                          "Store not connected", <<>>))
          ELSE gw' = Append(gw, GwRequest("ask", "forward", d,
                                          stores_db[NormalizeDomain(d)].access_token,
                                          0, TRUE, 0, "", <<>>))
    /\ UNCHANGED <<single, tasks, agents, stores_db, request_logs>>

\* the analysis service has answered, or could not be reached
AskQuestionAnswered ==
    \E i \in 1..Len(gw) :
        /\ gw[i].kind = "ask"
        /\ gw[i].pc = "forward"
        /\ \E out \in AnalysisOutcomes :
              IF out = 200
              THEN /\ request_logs' = Append(request_logs, LogEntry(gw[i].store, i))
                   /\ gw' = [gw EXCEPT ![i].pc = "done", ![i].answered = 200,
                                       ![i].status = 200]
              ELSE /\ request_logs' = request_logs
                   /\ gw' = [gw EXCEPT ![i].pc = "done",
                                       ![i].answered = out,
                                       ![i].status = IF out = 0 THEN 500 ELSE out,
                                       ![i].detail = IF out = 0 THEN "AI service error"
                                                     ELSE "analysis error"]
        /\ UNCHANGED <<single, tasks, agents, stores_db>>

\* GET /gateway/logs
GetRequestLogsRequest ==
    /\ Len(gw) < MaxRequests
    /\ \E limit \in (0 - 1)..MaxLimit :
          gw' = Append(gw, GwRequest("logs", "done", <<>>, "", limit, FALSE, 200, "",
                                     GetRequestLogs(request_logs, limit)))
    /\ UNCHANGED <<single, tasks, agents, stores_db, request_logs>>

NextGateway ==
    \/ ConnectStoreRequest
    \/ ConnectStoreChecked
    \/ AskQuestionRequest
    \/ AskQuestionAnswered
    \/ GetRequestLogsRequest

SpecGateway == InitGateway /\ [][NextGateway]_vars

(***************************************************************************)
(* Properties                                                              *)
(***************************************************************************)
\* the three states of a Normalized Result
IsEmptyState(d) == GetFlag(d, "is_empty")
IsErrorState(d) == GetFlag(d, "is_error")
IsPopulatedState(d) == "data" \in d.keys

StatesOf(d) ==
    {st \in {"empty", "error", "populated"} :
        \/ st = "empty" /\ IsEmptyState(d)
        \/ st = "error" /\ IsErrorState(d)
        \/ st = "populated" /\ IsPopulatedState(d)}

\* explain has run (and returned or raised)
Explained == branch # ""

\* the store's answer reports errors: an HTTP error status, a top-level
\* "errors" member, or parse errors
ReportsErrors(r) == r.status \notin {0, 200} \/ r.topErrors \/ r.parseErrors # <<>>

EmptyTemplate == "I couldn't find any data to answer your question"
ErrorApology == "I encountered an issue while trying to answer your question"

\* C1: under the mock provider the question "What were my top 5 selling
\* products last week?" gets an intent with primary_intent "sales_analysis"
\* and data sources containing orders and products, and when the executed
\* query returned a table of at least 30 rows the confidence is "high".
C1_MockTopSellingScenario ==
    (provider = "mock" /\ question = TopSellingQuestion) =>
        /\ pc \notin {"intent"} =>
              /\ intent.primary_intent = "sales_analysis"
              /\ Contains(intent.data_sources, "orders")
              /\ Contains(intent.data_sources, "products")
        /\ (pc = "done" /\ IsPopulatedState(data) /\ data.data.hasTable
               /\ Len(data.data.tableData.rowData) >= 30) =>
              /\ response.status = 200
              /\ response.confidence = "high"

\* the score as the specification states it: the keyed collections are
\* all those the flatten step produces
ClaimedScore(processed, i) ==
    (IF RowCount(processed) > 0 THEN 3
     ELSE IF \E k \in KeyedKeys : processed.keyed[k].present /\ processed.keyed[k].edges # <<>>
          THEN 2 ELSE 0)
    + (IF RowCount(processed) >= 30 THEN 2
       ELSE IF RowCount(processed) >= 7 THEN 1 ELSE 0)
    + (IF Cardinality(DOMAIN processed.summary) >= 3 THEN 1 ELSE 0)
    - (IF i.primary_intent \in {"inventory_forecast", "sales_forecast"} THEN 1 ELSE 0)

ClaimedLabel(score) ==
    IF score >= 5 THEN "high" ELSE IF score >= 3 THEN "medium" ELSE "low"

\* C2: for every populated result and every intent the confidence returned
\* is the label of the stated score (+3 for a table with rows, otherwise +2
\* when any keyed collection of the flatten step is non-empty; +2 / +1 for
\* 30 / 7 rows; +1 for a summary of 3 fields; -1 for a forecast intent;
\* >= 5 high, >= 3 medium, otherwise low).
C2_ConfidenceIsStatedScore ==
    (Explained /\ branch = "populated" /\ exc = "") =>
        result.confidence = ClaimedLabel(ClaimedScore(ProcessData(data), intent))

\* C3: explaining a Normalized Result in the empty state returns confidence
\* "low" and at least one suggestion, for every question and intent.
C3_EmptyIsLowWithSuggestions ==
    (Explained /\ IsEmptyState(data)) =>
        /\ exc = ""
        /\ result.confidence = "low"
        /\ "suggestions" \in result.keys
        /\ Len(result.suggestions) >= 1

C3_Witness ==
    /\ Explained
    /\ IsEmptyState(data)
    /\ intent.data_sources = <<>>
    /\ result.answer = Answer(EmptyTemplate, question, <<>>)

\* C4: explaining a Normalized Result in the error state returns confidence
\* "low" and one message per entry of the upstream errors payload, in order,
\* whatever the shape of the entries.
C4_EveryErrorSurfaced ==
    (Explained /\ IsErrorState(data)) =>
        /\ exc = ""
        /\ result.confidence = "low"
        /\ Len(result.errors) = Len(data.errors)
        /\ \A i \in 1..Len(data.errors) :
              data.errors[i].hasMessage => result.errors[i] = data.errors[i].message

\* C5: every value the execution step's normalisation produces is in exactly
\* one of the states empty, error, populated, and the branch the explainer
\* takes is that state.
C5_ExactlyOneState ==
    /\ pc = "explain" => Cardinality(StatesOf(data)) = 1
    /\ Explained => StatesOf(data) = {branch}

C5_Witness ==
    /\ pc = "done"
    /\ branch = "error"
    /\ ~IsEmptyState(data)
    /\ upstream.status = 500

\* C6: when the store's answer reports errors, on the primary path and on
\* the fallback path, the execution step returns a Normalized Result in the
\* error state: it does not raise and the result is not empty or populated.
C6_UpstreamErrorsGiveErrorState ==
    (attempts > 0 /\ ReportsErrors(upstream)) =>
        /\ pc \in {"explain", "respond", "done"}
        /\ exc # "RetryError"
        /\ StatesOf(data) = {"error"}

\* C7: when the store reports errors, the response of the analyze endpoint
\* carries the apology answer together with the upstream error messages
\* (stated for the questions whose errors reached the explainer as an error
\* state and were explained without an exception).
C7_ResponseCarriesErrors ==
    (pc = "done" /\ ReportsErrors(upstream) /\ IsErrorState(data) /\ exc = "") =>
        /\ response.status = 200
        /\ response.answer.template = ErrorApology
        /\ response.errors # <<>>
        /\ response.errors = result.errors

\* the store answered the query with a table that has no row
NoRows(r) ==
    /\ r.status = 200
    /\ r.dataKind = "obj" /\ r.sqKind = "obj"
    /\ ~r.topErrors /\ r.parseErrors = <<>>
    /\ r.hasTable /\ r.tableData.rowData = <<>>

\* C8: when the store returns no rows for the query, the result is treated
\* as the empty state: the fixed empty-result answer, confidence "low" and
\* suggestions, not a generated explanation.
C8_NoRowsIsEmpty ==
    (Explained /\ NoRows(upstream)) =>
        /\ branch = "empty"
        /\ result.answer.template = EmptyTemplate
        /\ result.confidence = "low"
        /\ Len(result.suggestions) >= 1

StepCount(p, name) == Len(SelectSeq(p, LAMBDA x : x.step = name))

\* C9: for every intent the plan has exactly one analyze_data step and it is
\* the last element.
C9_OneAnalyzeStepLast ==
    pc = "generate" =>
        /\ StepCount(plan, "analyze_data") = 1
        /\ plan[Len(plan)].step = "analyze_data"

C9_Witness ==
    /\ pc = "generate"
    /\ intent.data_sources = <<"orders", "orders", "inventory">>
    /\ Len(plan) = 3

\* the rule table of the plan builder: position and priority of each step
RuleIndex(name) ==
    CASE name = "fetch_inventory" -> 1
      [] name = "fetch_sales_data" -> 2
      [] name = "fetch_customer_data" -> 3
      [] name = "fetch_product_data" -> 4
      [] OTHER -> 5

RulePriority(name) ==
    CASE name \in {"fetch_inventory", "fetch_sales_data"} -> 1
      [] name \in {"fetch_customer_data", "fetch_product_data"} -> 2
      [] OTHER -> 3

RuleHolds(name, ds) ==
    CASE name = "fetch_inventory" -> Contains(ds, "inventory")
      [] name = "fetch_sales_data" -> Contains(ds, "orders") \/ Contains(ds, "sales")
      [] name = "fetch_customer_data" -> Contains(ds, "customers")
      [] name = "fetch_product_data" -> Contains(ds, "products")
      [] OTHER -> TRUE

FetchSteps == {"fetch_inventory", "fetch_sales_data", "fetch_customer_data", "fetch_product_data"}

\* C10: the plan has each fetch step (once, with its priority) iff its
\* categories are present; the steps are in non-decreasing priority order
\* with ties in rule-table order, so fetch_inventory precedes
\* fetch_sales_data.
C10_PlanFollowsRuleTable ==
    pc = "generate" =>
        /\ \A name \in FetchSteps :
              StepCount(plan, name) = IF RuleHolds(name, intent.data_sources) THEN 1 ELSE 0
        /\ \A i \in 1..Len(plan) : plan[i].priority = RulePriority(plan[i].step)
        /\ \A i, j \in 1..Len(plan) :
              i < j => /\ plan[i].priority <= plan[j].priority
                       /\ plan[i].priority = plan[j].priority
                             => RuleIndex(plan[i].step) < RuleIndex(plan[j].step)

C10_Witness ==
    /\ pc = "generate"
    /\ intent.data_sources = <<"orders", "inventory", "sales">>
    /\ plan[1].step = "fetch_inventory"
    /\ plan[2].step = "fetch_sales_data"
    /\ plan[1].priority = 1 /\ plan[2].priority = 1

\* the validator has run on the query text
Validated == pc = "validated"
QueryText == query_result.query.text
Range(seq) == {seq[i] : i \in 1..Len(seq)}

\* the checks of the validator, read off the query text
LacksShow(q) == ~HasKeyword(q, "SHOW")
Balanced(q) == Count(q, "(") = Count(q, ")")
HasAllClauses(q) ==
    /\ q # <<>>
    /\ HasKeyword(q, "FROM")
    /\ \E t \in ValidTables : HasKeyword(q, t)
    /\ HasKeyword(q, "SHOW")
    /\ Balanced(q)

\* the reasons of the checks a non-empty text violates
ClauseReasons(q) ==
    (IF ~HasKeyword(q, "FROM") THEN {"Missing FROM clause"} ELSE {})
        \cup (IF ~\E t \in ValidTables : HasKeyword(q, t)
              THEN {"Invalid or missing table name"} ELSE {})
        \cup (IF LacksShow(q) THEN {"Missing SHOW clause"} ELSE {})
        \cup (IF ~Balanced(q) THEN {"Unmatched parentheses"} ELSE {})

\* the reasons of all five checks
ViolatedReasons(q) == (IF q = <<>> THEN {"Query is empty"} ELSE {}) \cup ClauseReasons(q)

C13_TemplatesPassValidator ==
    (Validated /\ QueryText \in RenderedTemplates) =>
        /\ query_result.is_valid
        /\ query_result.validation_errors = <<>>

\* top_selling_products rendered with a negative window has been validated
C13_Witness ==
    /\ Validated
    /\ QueryText = top_selling_products(-1, 5)
    /\ query_result.is_valid

\* generate has returned its dict
GenerateReturned == query_result # NoGeneratedQuery /\ pc \notin {"validate", "validated"}
FixCalls == Count(llm_calls, "fix")

\* C14: a repair prompt is issued iff the first validation failed, and at
\* most once; the dict generate returns carries the text of its last
\* completion with the verdict and the errors of the validation of that
\* text, also when it is invalid; and the question then goes to execution
C14_OneRepairThenExecute ==
    /\ FixCalls <= 1
    /\ FixCalls = 1 <=> first_validation.errors # <<>>
    /\ (GenerateReturned /\ query_result.query_type = "shopifyql") =>
            /\ query_result.is_valid = ValidateQuery(query_result.query.text).is_valid
            /\ query_result.validation_errors = ValidateQuery(query_result.query.text).errors
            /\ pc = "execute" \/ attempts >= 1

\* a repaired query that is still invalid has gone to execution
C14_Witness ==
    /\ FixCalls = 1
    /\ GenerateReturned
    /\ ~query_result.is_valid
    /\ query_result.validation_errors # <<>>
    /\ query_result.query.text # <<>>
    /\ attempts >= 1
    /\ path = "shopifyql"

\* generate has been called and has returned or raised
GenerateCalled == plan # <<>> /\ pc \notin {"generate", "validate", "validated"}

\* C15: for the goals customer_details, order_details and product_details
\* generate returns a fallback dict with no query text and gives no prompt to
\* the text completion; every fallback dict goes to execution, and every
\* execution attempt of it uses the structured fetch; for any other goal
\* the dict generate returns has the primary query type and carries the
\* query text
C15_FallbackUsesStructuredFetch ==
    /\ (GenerateCalled /\ intent.primary_intent \in GraphQLIntents) =>
            /\ GenerateReturned
            /\ query_result.query_type = "graphql"
            /\ query_result.query = NoQuery
            /\ Count(llm_calls, "generate") = 0
            /\ FixCalls = 0
    /\ (GenerateReturned /\ query_result.query_type = "graphql") =>
            /\ pc = "execute" \/ attempts >= 1
            /\ attempts >= 1 => path = "graphql"
    /\ (GenerateReturned /\ intent.primary_intent \notin GraphQLIntents) =>
            /\ query_result.query_type = "shopifyql"
            /\ query_result.query.some

\* the completion call of _understand_intent has returned a completion
IntentCompletionReturned == llm_calls # <<>> /\ ~intent_response.raised

\* C16: whenever the capability returns a structured completion, whatever
\* members are missing, null or garbled (unknown category names included),
\* intent extraction returns an intent: a missing goal becomes
\* "general_analysis" and missing categories become the one category orders
C16_ExtractionDefaultsNeverRaise ==
    IntentCompletionReturned =>
        /\ intent # NoIntent
        /\ ~intent_response.value.hasIntent => intent.primary_intent = "general_analysis"
        /\ ~intent_response.value.hasSources => intent.data_sources = <<"orders">>

\* C17: every intent the extraction returns has a data_sources list that is
\* non-empty and names no data source twice
C17_DataSourcesNonEmptyDistinct ==
    intent # NoIntent =>
        /\ intent.data_sources # <<>>
        /\ \A i, j \in 1..Len(intent.data_sources) :
                intent.data_sources[i] = intent.data_sources[j] => i = j

\* the last execution attempt raised: no answer, or one the client call
\* raises on
LastAttemptRaised ==
    \/ upstream = NoUpstream
    \/ path = "shopifyql" /\ ExecuteShopifyQL(upstream).raised
    \/ path = "graphql" /\ ExecuteGraphQL(upstream).raised

\* the place of a step in process_question
StepRank(p) ==
    CASE p = "intent" -> 1
      [] p = "plan" -> 2
      [] p = "generate" -> 3
      [] p = "execute" -> 4
      [] p = "explain" -> 5
      [] p = "respond" -> 6
      [] OTHER -> 7

\* C18: execution is attempted at most MAX_RETRIES times; a further attempt
\* follows only an attempt that raised, and an attempt that returns is the
\* last; every other step is left for a later one when it has run, so none
\* runs twice and none runs again because execution is retried, and each
\* kind of prompt is given at most once
C18_BoundedRetryOnlyOfExecution ==
    /\ [](/\ attempts <= MAX_RETRIES
          /\ (pc = "execute" /\ attempts >= 1) => LastAttemptRaised
          /\ \A kind \in {"intent", "generate", "fix", "explain"} : Count(llm_calls, kind) <= 1)
    /\ [][/\ attempts' # attempts => (pc = "execute" /\ attempts' = attempts + 1)
          /\ \/ StepRank(pc') > StepRank(pc)
             \/ pc = "execute" /\ pc' = "execute" /\ attempts' = attempts + 1]_vars

\* the third attempt returned after two that raised
C18_Witness ==
    /\ attempts = MAX_RETRIES
    /\ pc = "explain"
    /\ ~LastAttemptRaised

\* every attempt up to the ceiling raised
RetriesExhausted == attempts = MAX_RETRIES /\ LastAttemptRaised

GenericFailure(r) ==
    /\ r.status = 500
    /\ r.error = "Failed to process question"
    /\ r.suggestions # <<>>

\* C19: when every execution attempt up to MAX_RETRIES raised, the question
\* stops with a failure: explain is not run, there is no result dict, and
\* the endpoint answers with the generic failure
C19_ExhaustedRetriesFail ==
    RetriesExhausted =>
        /\ pc \in {"respond", "done"}
        /\ exc = "RetryError"
        /\ branch = ""
        /\ Count(llm_calls, "explain") = 0
        /\ result = NoResult
        /\ pc = "done" => (GenericFailure(response) /\ response.answer = NoResponse.answer)

\* the endpoint has answered a question whose three attempts all raised
C19_Witness ==
    /\ RetriesExhausted
    /\ pc = "done"
    /\ upstream.status = 200
    /\ response.status = 500

\* a completion call raised: the structured one of the intent step, or a
\* text one (generation, repair, explanation)
CompletionCallRaised == intent_response.raised \/ exc = "APIError"

\* C20: a failure raised by a completion call, of whatever type (a parse
\* failure of the completion included), is not recovered and is answered
\* with the generic failure, status 500 with "Failed to process question"
\* and suggestions; so a question on which nothing but a completion call
\* fails is answered with a success or with that failure
C20_CompletionFailureIsGeneric500 ==
    (pc = "done" /\ (CompletionCallRaised \/ exc = "")) =>
        /\ CompletionCallRaised => (exc # "" /\ GenericFailure(response))
        /\ response.status = 200 \/ GenericFailure(response)

\* process_question has returned its dict
QuestionCompleted == Explained /\ exc = "" /\ pc \in {"respond", "done"}

\* C21: the dict a completed process_question returns, in the empty, the
\* error and the populated outcome alike, has an answer, a confidence among
\* low, medium, high, and as data_source the first of the intent's
\* data_sources
C21_PayloadHasFirstSource ==
    (QuestionCompleted /\ intent.data_sources # <<>>) =>
        /\ result.answer # NoResult.answer
        /\ result.confidence \in {"low", "medium", "high"}
        /\ result.data_source = intent.data_sources[1]

\* the cells of column i of a table that parse as numbers
NumericCells(rows, i) ==
    SelectSeq([r \in 1..Len(rows) |-> rows[r][i]], LAMBDA c : c.kind = "num")

\* the summary of a populated table result
TableSummarized ==
    /\ Explained
    /\ branch = "populated"
    /\ exc = ""
    /\ ProcessData(data).hasTable
    /\ ProcessData(data).table.rows # <<>>

\* C24: for every column whose name contains a metric keyword, the summary
\* holds total, average, max and min over exactly the cells that parse as
\* numbers (other cells are skipped), and holds none of them only when the
\* column has no such cell
C24_AggregatesOverNumericCells ==
    TableSummarized =>
        LET table == ProcessData(data).table
            summary == result.raw_data
        IN \A i \in 1..Len(table.columns) :
              LET col == table.columns[i]
                  nums == NumericCells(table.rows, i)
              IN ColumnKeywords(col) \cap MetricKeywords # {} =>
                    IF nums = <<>>
                    THEN \A stat \in {"total", "average", "max", "min"} :
                            Key(col, stat) \notin DOMAIN summary
                    ELSE /\ \A stat \in {"total", "average", "max", "min"} :
                                Key(col, stat) \in DOMAIN summary
                         /\ summary[Key(col, "total")] = SumCells(nums)
                         /\ summary[Key(col, "average")] =
                                [num |-> SumCells(nums), den |-> Len(nums)]
                         /\ summary[Key(col, "max")] = MaxCell(nums)
                         /\ summary[Key(col, "min")] = MinCell(nums)

\* C26: an execution attempt takes the ShopifyQL call exactly when the dict
\* of generate has query_type shopifyql and a non-empty query; in every
\* other case, a shopifyql dict whose query is empty after the repair
\* included, it makes the structured fetch for the intent's data sources
C26_PathFollowsTypeAndText ==
    attempts >= 1 =>
        /\ path \in {"shopifyql", "graphql"}
        /\ path = "shopifyql" <=>
                (/\ query_result.query_type = "shopifyql"
                 /\ query_result.query.some
                 /\ query_result.query.text # <<>>)
        /\ path = "graphql" =>
                \A k \in KeyedKeys : upstream.keyed[k].present => k \in RequestedKeys(intent)

\* a shopifyql dict with an empty query has been executed by the fetch
C26_Witness ==
    /\ attempts >= 1
    /\ query_result.query_type = "shopifyql"
    /\ query_result.query = SomeQuery(<<>>)
    /\ FixCalls = 1
    /\ path = "graphql"
    /\ upstream.status = 200

\* C27: at most four prompts are given for one question: one for the
\* intent, then at most one each for the query, its repair and the
\* explanation; the explanation is asked for only in the populated state;
\* and an execution attempt gives no prompt
C27_AtMostFourPrompts ==
    /\ [](/\ Len(llm_calls) <= 4
          /\ \A kind \in {"intent", "generate", "fix", "explain"} : Count(llm_calls, kind) <= 1
          /\ pc # "intent" => (llm_calls # <<>> /\ llm_calls[1] = "intent")
          /\ Count(llm_calls, "explain") = 1 => (branch = "populated" /\ IsPopulatedState(data))
          /\ (Explained /\ (IsEmptyState(data) \/ IsErrorState(data))) =>
                Count(llm_calls, "explain") = 0)
    /\ [][attempts' # attempts => llm_calls' = llm_calls]_vars

\* four prompts were given for a question whose execution took three attempts
C27_Witness ==
    /\ llm_calls = <<"intent", "generate", "fix", "explain">>
    /\ attempts = MAX_RETRIES
    /\ pc = "done"

\* low < medium < high
LabelRank(label) == CASE label = "high" -> 3 [] label = "medium" -> 2 [] OTHER -> 1

\* explain has returned the dict of a populated result
PopulatedExplained == Explained /\ branch = "populated" /\ exc = ""

\* C28: "high" is returned only for a table of at least 7 rows, and for a
\* forecast intent only for one of at least 30 rows with a summary of at
\* least 3 fields; a keyed-collection result never gets "high"; and on the
\* same data a forecast intent never gets a higher label than another intent
C28_HighNeedsRows ==
    PopulatedExplained =>
        LET processed == ProcessData(data)
            forecast == [intent EXCEPT !.primary_intent = "inventory_forecast"]
            other == [intent EXCEPT !.primary_intent = "sales_analysis"]
        IN /\ result.confidence = "high" =>
                /\ processed.hasTable
                /\ processed.table.row_count >= 7
                /\ intent.primary_intent \in ForecastIntents =>
                        /\ processed.table.row_count >= 30
                        /\ Cardinality(DOMAIN processed.summary) >= 3
           /\ ~processed.hasTable => result.confidence # "high"
           /\ LabelRank(CalculateConfidence(processed, forecast))
                    <= LabelRank(CalculateConfidence(processed, other))

\* a forecast on a table of 30 rows with aggregates got "high"
C28_Witness ==
    /\ PopulatedExplained
    /\ intent.primary_intent \in ForecastIntents
    /\ ProcessData(data).table.row_count = 30
    /\ result.confidence = "high"

\* the store's last answer was an HTTP error status
HttpErrorAnswered == upstream.status \notin {0, 200}

\* C29: an answer of the store with a status other than 200 is not retried:
\* no attempt follows it, the result is the error state whose only message
\* is "HTTP <status>", and the question completes with confidence "low"
C29_HttpErrorNotRetried ==
    /\ [](HttpErrorAnswered =>
            /\ pc \in {"explain", "respond", "done"}
            /\ IsErrorState(data)
            /\ data.errors = HttpErrors(upstream.status).errors
            /\ Explained =>
                    /\ exc = ""
                    /\ result.errors = <<Message("HTTP", upstream.status)>>
                    /\ result.confidence = "low"
            /\ pc = "done" => (response.status = 200 /\ response.confidence = "low"))
    /\ [][HttpErrorAnswered => attempts' = attempts]_vars

\* the first attempt was answered with HTTP 401 and the question completed
C29_Witness ==
    /\ upstream.status = 401
    /\ attempts = 1
    /\ path = "shopifyql"
    /\ pc = "done"
    /\ response.status = 200

\* the question of task t as analyze_question received it
Submitted(t) == NewTask(tasks[t].store, tasks[t].question, tasks[t].script)

\* C22: a question processed while others are, interleaved at the awaits in
\* any order, ends as it ends when processed alone with the same completions
\* and the same answers of its store, and the agent it uses is the one built
\* from its own request.
C22_ConcurrentQuestionsAreIsolated ==
    \A t \in TaskIds :
        /\ tasks[t].pc # "construct" => agents[t] = Agent(tasks[t].store)
        /\ tasks[t].pc = "done" => tasks[t] = RunAlone(Submitted(t))

\* two questions for different stores, one answered from the data of its
\* store while the other, which had its store refuse, awaits its explanation
C22_Witness ==
    /\ tasks[1].store = "a.myshopify.com"
    /\ tasks[2].store = "b.myshopify.com"
    /\ tasks[1].pc = "explain_wait"
    /\ tasks[2].pc = "done"
    /\ tasks[2].attempts = 1
    /\ tasks[2].response.status = 200

\* the stage a position of process_question belongs to
StageRank(p) ==
    CASE p = "construct" -> 0
      [] p \in {"intent", "intent_wait"} -> 1
      [] p = "plan" -> 2
      [] p \in {"generate", "generate_wait", "fix_wait"} -> 3
      [] p \in {"execute", "execute_wait"} -> 4
      [] p \in {"explain", "explain_wait"} -> 5
      [] p = "respond" -> 6
      [] OTHER -> 7

\* the stage a request belongs to
CallRank(c) ==
    CASE c = "intent" -> 1
      [] c \in {"generate", "fix"} -> 3
      [] c \in {"shopifyql", "graphql"} -> 4
      [] OTHER -> 5

\* C25: a question never goes back to an earlier stage and sends a request
\* only when it awaits none, so at most one of its requests is in flight;
\* the requests it made are in the order of the stages; the fetch is one
\* request that asks for every category of the intent.
C25_StagesInOrderOneRequestAtATime ==
    /\ [](\A t \in TaskIds :
            /\ Cardinality(tasks[t].in_flight) <= 1
            /\ tasks[t].in_flight # {} => tasks[t].pc \in {"intent_wait", "generate_wait", "fix_wait",
                                                          "execute_wait", "explain_wait"}
            /\ \A q \in tasks[t].in_flight :
                  q.kind = "graphql" => q.keys = RequestedKeys(tasks[t].intent)
            /\ \A i \in 1..Len(tasks[t].calls) : \A j \in i..Len(tasks[t].calls) :
                  CallRank(tasks[t].calls[i]) <= CallRank(tasks[t].calls[j]))
    /\ [][\A t \in TaskIds :
            /\ StageRank(tasks'[t].pc) >= StageRank(tasks[t].pc)
            /\ StageRank(tasks'[t].pc) > StageRank(tasks[t].pc)
                  => tasks[t].in_flight = {} \/ tasks'[t].in_flight = {}
            /\ Len(tasks'[t].calls) > Len(tasks[t].calls)
                  => Cardinality(tasks'[t].in_flight) = 1]_vars

\* a question whose repaired query came back blank fetched orders and
\* products in one request and was answered
C25_Witness ==
    /\ tasks[1].pc = "done"
    /\ tasks[1].calls = <<"intent", "generate", "fix", "graphql", "explain">>
    /\ Cardinality(RequestedKeys(tasks[1].intent)) = 2
    /\ tasks[1].response.status = 200

\* request i of the gateway gets the answer of the store in this step
Checked(i) == i \in 1..Len(gw) /\ gw[i].kind = "connect" /\ gw[i].pc = "check" /\ gw'[i].pc = "done"

\* the reasons connect_store gives when it rejects
ConnectDiagnostics == {"Invalid access token", "Failed to connect to Shopify", "Connection error"}

EntriesOf(i) == {j \in 1..Len(request_logs) : request_logs[j].question = i}

\* a question is rejected with 401 and not forwarded exactly when its store
\* is not in the registry as it arrives, and its arrival logs nothing
UnregisteredRejected ==
    Len(gw') > Len(gw) /\ gw'[Len(gw')].kind = "ask" =>
        LET q == gw'[Len(gw')] IN
        /\ q.forwarded <=> q.store \in DOMAIN stores_db
        /\ ~q.forwarded => q.pc = "done" /\ q.status = 401
        /\ request_logs' = request_logs

\* the log holds one entry for each question answered 200 by the analysis
\* service and none for any other
OneLogPerAnswered ==
    /\ \A i \in 1..Len(gw) :
          Cardinality(EntriesOf(i)) =
              IF gw[i].kind = "ask" /\ gw[i].pc = "done" /\ gw[i].status = 200 THEN 1 ELSE 0
    /\ \A j \in 1..Len(request_logs) : request_logs[j].question \in 1..Len(gw)

\* the logs route answers with the last limit entries, or all when there
\* are fewer, the latest first
LogsAtMostLimit ==
    Len(gw') > Len(gw) /\ gw'[Len(gw')].kind = "logs" /\ gw'[Len(gw')].limit >= 0 =>
        LET q == gw'[Len(gw')]
            n == IF q.limit < Len(request_logs) THEN q.limit ELSE Len(request_logs)
        IN q.logs = [j \in 1..n |-> request_logs[Len(request_logs) + 1 - j]]

\* C30: a question for a store that is not in the registry is answered 401,
\* is not forwarded and is not logged; the log holds exactly one entry per
\* question the analysis service answered 200 and none for the others; the
\* logs route returns at most limit entries, the most recent first.
C30_LogPerSuccessAndLimitedListing ==
    /\ []OneLogPerAnswered
    /\ [][UnregisteredRejected /\ LogsAtMostLimit]_vars

\* the two parts about ask_question hold
AskQuestionLogsAsClaimed == []OneLogPerAnswered /\ [][UnregisteredRejected]_vars

====
